---------------------------- MODULE Spec2Model ----------------------------
(***************************************************************************)
(* NativeArtifact (lib/engine-native/src/artifact.rs): compiling a wasm    *)
(* module into a shared library, loading it back, and the artifact facade. *)
(*                                                                         *)
(* Bytes are naturals 0..255, byte strings are sequences of bytes.  A file *)
(* on disk is its leading bytes (head) followed by an optional image: the  *)
(* object or shared library a toolchain wrote after the header.            *)
(***************************************************************************)
EXTENDS Naturals, Sequences, FiniteSets, TLC

(***************************************************************************)
(* Bounds of the model.                                                    *)
(***************************************************************************)
MaxArtifacts == 2
MaxFiles == 3
MaxHandles == 2
MaxRelocations == 2

(***************************************************************************)
(* Lengths at or above Huge exceed every buffer of the model; arithmetic   *)
(* on lengths saturates there.                                             *)
(***************************************************************************)
Huge == 16777216

NoValue == "none"

(***************************************************************************)
(* Generic sequence helpers.                                               *)
(***************************************************************************)
RECURSIVE Concat(_)
Concat(ss) == IF ss = <<>> THEN <<>> ELSE Head(ss) \o Concat(Tail(ss))

Range(s) == {s[i] : i \in DOMAIN s}

Zeros(n) == [i \in 1..n |-> 0]

Drop(bs, n) == SubSeq(bs, n + 1, Len(bs))

\* <[u8]>::starts_with
StartsWith(bytes, needle) ==
    /\ Len(bytes) >= Len(needle)
    /\ SubSeq(bytes, 1, Len(needle)) = needle

(***************************************************************************)
(* Target triples.                                                         *)
(***************************************************************************)
Linux64   == [arch |-> "x86_64",  os |-> "linux",   format |-> "elf"]
LinuxArm  == [arch |-> "aarch64", os |-> "linux",   format |-> "elf"]
Linux32   == [arch |-> "i686",    os |-> "linux",   format |-> "elf"]
MacOS64   == [arch |-> "x86_64",  os |-> "macos",   format |-> "macho"]
Windows64 == [arch |-> "x86_64",  os |-> "windows", format |-> "coff"]
FreeBSD64 == [arch |-> "x86_64",  os |-> "freebsd", format |-> "elf"]
Wasm32    == [arch |-> "wasm32",  os |-> "unknown", format |-> "wasm"]

Hosts == {Linux64, Linux32, MacOS64, Windows64, FreeBSD64}

PointerWidth(triple) == IF triple.arch \in {"i686", "wasm32"} THEN 32 ELSE 64

(***************************************************************************)
(* Magic headers and is_deserializable.                                    *)
(***************************************************************************)
MAGIC_HEADER_MH_CIGAM_64 == <<207, 250, 237, 254>>
MAGIC_HEADER_ELF_32 == <<127, 69, 76, 70, 1>>
MAGIC_HEADER_ELF_64 == <<127, 69, 76, 70, 2>>
MAGIC_HEADER_COFF_64 == <<77, 90>>

\* cfg_if on the build's (target_pointer_width, target_os): h is the host.
is_deserializable(h, bytes) ==
    IF PointerWidth(h) = 64 /\ h.os = "macos"
    THEN StartsWith(bytes, MAGIC_HEADER_MH_CIGAM_64)
    ELSE IF PointerWidth(h) = 64 /\ h.os = "linux"
    THEN StartsWith(bytes, MAGIC_HEADER_ELF_64)
    ELSE IF PointerWidth(h) = 32 /\ h.os = "linux"
    THEN StartsWith(bytes, MAGIC_HEADER_ELF_32)
    ELSE IF PointerWidth(h) = 64 /\ h.os = "windows"
    THEN StartsWith(bytes, MAGIC_HEADER_COFF_64)
    ELSE FALSE

(***************************************************************************)
(* Unsigned LEB128 (leb128::write::unsigned, leb128::read::unsigned) and   *)
(* the 10-byte length field of the metadata symbol.                        *)
(***************************************************************************)
\* A u64 is four 16-bit limbs, least significant first.
AsU64(n) == <<n % 65536, n \div 65536, 0, 0>>

ZeroU64 == <<0, 0, 0, 0>>

\* A shift that moves no bits from one limb into the one below.
Shr7_within_limbs(val) == [i \in 1..4 |-> val[i] \div 128]

\* val >> 7
Shr7(val) ==
    [i \in 1..4 |->
        (val[i] \div 128) + (IF i < 4 THEN (val[i + 1] % 128) * 512 ELSE 0)]

RECURSIVE Pow2(_)
Pow2(k) == IF k = 0 THEN 1 ELSE 2 * Pow2(k - 1)

\* (low_bits as u64) << shift: bits shifted past bit 63 are lost.
Shl(low_bits, shift) ==
    LET wide == low_bits * Pow2(shift % 16)
        limb == (shift \div 16) + 1 IN
    [i \in 1..4 |-> IF i = limb THEN wide % 65536
                    ELSE IF i = limb + 1 THEN wide \div 65536
                    ELSE 0]

\* a | b, bit by bit within each limb
RECURSIVE BitOr(_, _, _)
BitOr(a, b, bits) ==
    IF bits = 0 THEN 0
    ELSE (IF a % 2 = 1 \/ b % 2 = 1 THEN 1 ELSE 0)
            + 2 * BitOr(a \div 2, b \div 2, bits - 1)

Or64(a, b) == [i \in 1..4 |-> BitOr(a[i], b[i], 16)]

\* Low 7 bits per byte, a continuation bit on every byte but the last.
RECURSIVE Leb128Write(_)
Leb128Write(val) ==
    IF Shr7(val) = ZeroU64
    THEN <<val[1] % 128>>
    ELSE <<(val[1] % 128) + 128>> \o Leb128Write(Shr7(val))

\* The length field without its padding: the LEB128 bytes only.
MetadataLengthField_unpadded(n) == Leb128Write(n)

\* vec![0; 10] overwritten from its start by the LEB128 bytes of the u64 n.
MetadataLengthField(n) ==
    LET w == Leb128Write(n) IN w \o Zeros(10 - Len(w))

\* Value of little-endian base-`base` digits, saturating at Huge.
RECURSIVE DigitsValue(_, _)
DigitsValue(ds, base) ==
    IF ds = <<>> THEN 0
    ELSE LET hi == DigitsValue(Tail(ds), base) IN
         IF hi >= Huge \div base THEN Huge ELSE Head(ds) + base * hi

\* A reader that takes any tenth byte and reads on.
RECURSIVE Leb128Scan_any_tenth(_, _, _)
Leb128Scan_any_tenth(bs, pos, shift) ==
    IF pos > Len(bs) THEN [ok |-> FALSE, err |-> "IoError", last |-> pos]
    ELSE IF bs[pos] < 128 THEN [ok |-> TRUE, err |-> NoValue, last |-> pos]
    ELSE Leb128Scan_any_tenth(bs, pos + 1, shift + 7)

\* The reader consumes bytes until one has no continuation bit; the tenth
\* byte (shift 63) may only be 0 or 1.
RECURSIVE Leb128Scan(_, _, _)
Leb128Scan(bs, pos, shift) ==
    IF pos > Len(bs) THEN [ok |-> FALSE, err |-> "IoError", last |-> pos]
    ELSE IF shift = 63 /\ bs[pos] # 0 /\ bs[pos] # 1
    THEN [ok |-> FALSE, err |-> "Overflow", last |-> pos]
    ELSE IF bs[pos] < 128 THEN [ok |-> TRUE, err |-> NoValue, last |-> pos]
    ELSE Leb128Scan(bs, pos + 1, shift + 7)

\* result |= low_bits << shift, for the bytes up to the last one read
RECURSIVE Leb128Value(_, _)
Leb128Value(bs, last) ==
    IF last = 0 THEN ZeroU64
    ELSE Or64(Leb128Value(bs, last - 1), Shl(bs[last] % 128, 7 * (last - 1)))

Leb128Read(bs) ==
    LET scan == Leb128Scan(bs, 1, 0) IN
    IF ~scan.ok THEN [ok |-> FALSE, err |-> scan.err, val |-> ZeroU64]
    ELSE [ok |-> TRUE, err |-> NoValue, val |-> Leb128Value(bs, scan.last)]

\* metadata_len as usize: the low pointer-width bits, saturating at Huge.
AsUsize(h, val) ==
    IF val[2] >= Huge \div 65536 THEN Huge
    ELSE IF PointerWidth(h) = 64 /\ (val[3] # 0 \/ val[4] # 0) THEN Huge
    ELSE val[1] + 65536 * val[2]

(***************************************************************************)
(* bincode (fixed-width little-endian integers, u64 length prefixes) of    *)
(* ModuleMetadata: compile_info, prefix, data_initializers,                *)
(* function_body_lengths, in field order.                                  *)
(***************************************************************************)
U32(n) == <<n % 256, (n \div 256) % 256, (n \div 65536) % 256, 0>>

U64(n) == U32(n) \o <<0, 0, 0, 0>>

EncBytes(bs) == U64(Len(bs)) \o bs

EncVec(xs, Enc(_)) == U64(Len(xs)) \o Concat([i \in DOMAIN xs |-> Enc(xs[i])])

EncTypes(ts) == EncVec(ts, U32)

EncFunctionType(ft) == EncTypes(ft.params) \o EncTypes(ft.results)

EncModuleInfo(m) ==
    EncVec(m.signatures, EncFunctionType)
        \o EncVec(m.functions, U32)
        \o U64(m.num_imported_funcs)

EncMemoryPlan(mp) == U32(mp.minimum) \o U64(mp.offset_guard_size)

EncTablePlan(tp) == U32(tp.minimum)

EncCompileModuleInfo(ci) ==
    EncModuleInfo(ci.module)
        \o ci.features
        \o EncVec(ci.memory_plans, EncMemoryPlan)
        \o EncVec(ci.table_plans, EncTablePlan)

EncDataInitializer(di) == U64(di.offset) \o EncBytes(di.data)

\* bincode::serialize(&metadata)
BincodeSerialize(md) ==
    EncCompileModuleInfo(md.compile_info)
        \o EncBytes(md.prefix)
        \o EncVec(md.data_initializers, EncDataInitializer)
        \o EncVec(md.function_body_lengths, U64)

(***************************************************************************)
(* bincode decoding: a parse result is [ok, val, rest].                    *)
(***************************************************************************)
PFail == [ok |-> FALSE, val |-> NoValue, rest |-> <<>>]

POk(v, rest) == [ok |-> TRUE, val |-> v, rest |-> rest]

PU32(bs) ==
    IF Len(bs) < 4 THEN PFail
    ELSE POk(DigitsValue(SubSeq(bs, 1, 4), 256), Drop(bs, 4))

PU64(bs) ==
    IF Len(bs) < 8 THEN PFail
    ELSE POk(DigitsValue(SubSeq(bs, 1, 8), 256), Drop(bs, 8))

PBool(bs) ==
    IF Len(bs) < 1 \/ bs[1] > 1 THEN PFail ELSE POk(bs[1], Drop(bs, 1))

\* A byte vector: its u64 length, then that many bytes.
PBytes(bs) ==
    LET n == PU64(bs) IN
    IF ~n.ok \/ n.val > Len(n.rest) THEN PFail
    ELSE POk(SubSeq(n.rest, 1, n.val), Drop(n.rest, n.val))

\* A vector of u32 (value types): its u64 length, then the elements.
RECURSIVE PU32Seq(_, _, _)
PU32Seq(bs, n, acc) ==
    IF n = 0 THEN POk(acc, bs)
    ELSE IF Len(bs) < 4 THEN PFail
    ELSE PU32Seq(Drop(bs, 4), n - 1, Append(acc, DigitsValue(SubSeq(bs, 1, 4), 256)))

PTypes(bs) ==
    LET n == PU64(bs) IN
    IF ~n.ok \/ n.val > Len(n.rest) THEN PFail ELSE PU32Seq(n.rest, n.val, <<>>)

PFunctionType(bs) ==
    LET ps == PTypes(bs)
        rs == IF ps.ok THEN PTypes(ps.rest) ELSE PFail
    IN IF rs.ok THEN POk([params |-> ps.val, results |-> rs.val], rs.rest) ELSE PFail

PMemoryPlan(bs) ==
    LET min == PU32(bs)
        guard == IF min.ok THEN PU64(min.rest) ELSE PFail
    IN IF guard.ok
       THEN POk([minimum |-> min.val, offset_guard_size |-> guard.val], guard.rest)
       ELSE PFail

PTablePlan(bs) ==
    LET min == PU32(bs) IN IF min.ok THEN POk([minimum |-> min.val], min.rest) ELSE PFail

PDataInitializer(bs) ==
    LET off == PU64(bs)
        data == IF off.ok THEN PBytes(off.rest) ELSE PFail
    IN IF data.ok THEN POk([offset |-> off.val, data |-> data.val], data.rest) ELSE PFail

\* One element of the named type.
PElem(type, bs) ==
    CASE type = "SignatureIndex" -> PU32(bs)
      [] type = "u64" -> PU64(bs)
      [] type = "bool" -> PBool(bs)
      [] type = "FunctionType" -> PFunctionType(bs)
      [] type = "MemoryPlan" -> PMemoryPlan(bs)
      [] type = "TablePlan" -> PTablePlan(bs)
      [] type = "OwnedDataInitializer" -> PDataInitializer(bs)

\* n elements of the named type in a row.
RECURSIVE PMany(_, _, _, _)
PManyAfter(p, n, acc, type) ==
    IF ~p.ok THEN PFail ELSE PMany(p.rest, n - 1, Append(acc, p.val), type)

PMany(bs, n, acc, type) ==
    IF n = 0 THEN POk(acc, bs) ELSE PManyAfter(PElem(type, bs), n, acc, type)

\* A vector: its u64 length, then that many elements.
PVec(bs, type) ==
    LET n == PU64(bs) IN
    IF ~n.ok \/ n.val > Len(n.rest) THEN PFail ELSE PMany(n.rest, n.val, <<>>, type)

NumFeatures == 5

\* The fields of ModuleMetadata (compile_info flattened), in encoding order.
MetadataFields ==
    <<"signatures", "functions", "num_imported_funcs", "features", "memory_plans",
      "table_plans", "prefix", "data_initializers", "function_body_lengths">>

PField(field, bs) ==
    CASE field = "signatures" -> PVec(bs, "FunctionType")
      [] field = "functions" -> PVec(bs, "SignatureIndex")
      [] field = "num_imported_funcs" -> PU64(bs)
      [] field = "features" -> PMany(bs, NumFeatures, <<>>, "bool")
      [] field = "memory_plans" -> PVec(bs, "MemoryPlan")
      [] field = "table_plans" -> PVec(bs, "TablePlan")
      [] field = "prefix" -> PBytes(bs)
      [] field = "data_initializers" -> PVec(bs, "OwnedDataInitializer")
      [] field = "function_body_lengths" -> PVec(bs, "u64")

RECURSIVE PFields(_, _, _)
PFieldsAfter(p, i, acc) ==
    IF ~p.ok THEN PFail ELSE PFields(p.rest, i + 1, Append(acc, p.val))

PFields(bs, i, acc) ==
    IF i > Len(MetadataFields) THEN POk(acc, bs)
    ELSE PFieldsAfter(PField(MetadataFields[i], bs), i, acc)

MetadataOf(v) ==
    [compile_info |->
        [module |-> [signatures |-> v[1], functions |-> v[2],
                     num_imported_funcs |-> v[3]],
         features |-> v[4], memory_plans |-> v[5], table_plans |-> v[6]],
     prefix |-> v[7],
     data_initializers |-> v[8],
     function_body_lengths |-> v[9]]

DecodedMetadata(p) ==
    IF p.ok THEN [ok |-> TRUE, val |-> MetadataOf(p.val)]
    ELSE [ok |-> FALSE, val |-> NoValue]

\* bincode::deserialize::<ModuleMetadata>(slice); trailing bytes are allowed.
BincodeDeserialize(bs) == DecodedMetadata(PFields(bs, 1, <<>>))

(***************************************************************************)
(* Symbol names (ModuleMetadata::get_*_name): ASCII byte strings built     *)
(* from the prefix and the decimal index.                                  *)
(***************************************************************************)
\* "WASMER_METADATA"
WASMER_METADATA == <<87, 65, 83, 77, 69, 82, 95, 77, 69, 84, 65, 68, 65, 84, 65>>
\* "wasm_function_"
FunctionStem == <<119, 97, 115, 109, 95, 102, 117, 110, 99, 116, 105, 111, 110, 95>>
\* "wasm_trampoline_"
TrampolineStem ==
    <<119, 97, 115, 109, 95, 116, 114, 97, 109, 112, 111, 108, 105, 110, 101, 95>>
\* "wasm_dyn_trampoline_"
DynTrampolineStem ==
    <<119, 97, 115, 109, 95, 100, 121, 110, 95, 116, 114, 97, 109, 112, 111, 108,
      105, 110, 101, 95>>
\* "wasm_section_"
SectionStem == <<119, 97, 115, 109, 95, 115, 101, 99, 116, 105, 111, 110, 95>>
\* "_"
Underscore == <<95>>

RECURSIVE Decimal(_)
Decimal(n) == IF n < 10 THEN <<48 + n>> ELSE Decimal(n \div 10) \o <<48 + (n % 10)>>

get_function_name(md, index) ==
    FunctionStem \o md.prefix \o Underscore \o Decimal(index)

get_function_call_trampoline_name(md, index) ==
    TrampolineStem \o md.prefix \o Underscore \o Decimal(index)

get_dynamic_function_trampoline_name(md, index) ==
    DynTrampolineStem \o md.prefix \o Underscore \o Decimal(index)

get_section_name(md, index) ==
    SectionStem \o md.prefix \o Underscore \o Decimal(index)

\* LibCall::to_function_name: "wasmer_f32_ceil", "wasmer_probestack"
LibCallName(libcall) ==
    IF libcall = "CeilF32"
    THEN <<119, 97, 115, 109, 101, 114, 95, 102, 51, 50, 95, 99, 101, 105, 108>>
    ELSE <<119, 97, 115, 109, 101, 114, 95, 112, 114, 111, 98, 101, 115, 116, 97,
           99, 107>>

(***************************************************************************)
(* The wasm binaries given to `new`, with what the environment translates  *)
(* them to and what the compiler emits for them.                           *)
(***************************************************************************)
I32 == 0
F32 == 2

Sig_i32_to == [params |-> <<I32>>, results |-> <<>>]
Sig_f32_f32 == [params |-> <<F32>>, results |-> <<F32>>]

Reloc(offset, target, addend) == [offset |-> offset, reloc_target |-> target, addend |-> addend]

LocalFunc(i) == [kind |-> "LocalFunc", index |-> i]
LibCall(l) == [kind |-> "LibCall", index |-> l]
CustomSection(i) == [kind |-> "CustomSection", index |-> i]
JumpTable(i) == [kind |-> "JumpTable", index |-> i]

\* (module (import "m" "g" (func (param i32))) (export "g" (func 0)))
WasmImport ==
    [valid |-> TRUE, prefix |-> <<97, 95, 49>>,
     module |-> [signatures |-> <<Sig_i32_to>>, functions |-> <<0>>,
                 num_imported_funcs |-> 1],
     memories |-> <<>>, tables |-> <<>>, data_initializers |-> <<>>,
     function_bodies |-> <<>>,
     function_call_trampolines |-> << <<255, 231>> >>,
     dynamic_function_trampolines |-> << <<255, 224>> >>,
     custom_sections |-> <<>>,
     relocations |-> <<>>, custom_section_relocations |-> <<>>]

\* One import, two local functions calling each other and libcalls, a type
\* section that repeats a signature, a memory with a data segment, a table
\* and a read-only custom section.
WasmCalls ==
    [valid |-> TRUE, prefix |-> <<97>>,
     module |-> [signatures |-> <<Sig_f32_f32, Sig_i32_to, Sig_f32_f32>>,
                 functions |-> <<1, 0, 2>>, num_imported_funcs |-> 1],
     memories |-> <<[minimum |-> 1]>>, tables |-> <<[minimum |-> 2]>>,
     data_initializers |-> <<[offset |-> 8, data |-> <<104, 105>>]>>,
     function_bodies |-> << <<232, 0, 195>>, <<232, 195>> >>,
     function_call_trampolines |-> << <<255, 232>>, <<255, 233>>, <<255, 232>> >>,
     dynamic_function_trampolines |-> << <<255, 225>> >>,
     custom_sections |-> << [protection |-> "Read", bytes |-> <<1, 2, 3, 4>>] >>,
     relocations |->
        << <<Reloc(1, LibCall("CeilF32"), 0), Reloc(1, LocalFunc(1), 4),
             Reloc(2, JumpTable(0), 0)>>,
           <<Reloc(1, LibCall("CeilF32"), 4), Reloc(1, CustomSection(0), 0),
             Reloc(1, LibCall("Probestack"), 0)>> >>,
     custom_section_relocations |-> << <<Reloc(0, LocalFunc(0), 0)>> >>]

\* Bytes the environment rejects.
WasmInvalid == [WasmImport EXCEPT !.valid = FALSE]

WasmInputs == {WasmImport, WasmCalls, WasmInvalid}

\* tunables.memory_plan / tunables.table_plan
MemoryPlanOf(memory_type) == [minimum |-> memory_type.minimum, offset_guard_size |-> 16]

TablePlanOf(table_type) == [minimum |-> table_type.minimum]

\* engine_inner.get_prefix(&data)
get_prefix(data) == data.prefix

(***************************************************************************)
(* The relocatable object (object::write::Object).                         *)
(***************************************************************************)
NewObject(format, architecture, endianness) ==
    [format |-> format, architecture |-> architecture, endianness |-> endianness,
     symbols |-> <<>>, data |-> <<>>, text |-> <<>>, relocations |-> <<>>]

\* obj.symbol_id(name): the position of the named symbol, 0 when absent.
SymbolId(obj, name) ==
    IF \E i \in DOMAIN obj.symbols : obj.symbols[i].name = name
    THEN CHOOSE i \in DOMAIN obj.symbols : obj.symbols[i].name = name
    ELSE 0

\* obj.add_symbol followed by obj.add_symbol_data into a standard section.
AddDefinedSymbol(obj, name, kind, section, bytes) ==
    LET at == IF section = "Data" THEN Len(obj.data) ELSE Len(obj.text)
        sym == [name |-> name, kind |-> kind, scope |-> "Dynamic",
                section |-> section, value |-> at, size |-> Len(bytes)]
    IN [obj EXCEPT !.symbols = Append(@, sym),
                   !.data = IF section = "Data" THEN @ \o bytes ELSE @,
                   !.text = IF section = "Text" THEN @ \o bytes ELSE @]

\* obj.add_symbol of an undefined symbol (a libcall).
AddUndefinedSymbol(obj, name) ==
    [obj EXCEPT !.symbols =
        Append(@, [name |-> name, kind |-> "Unknown", scope |-> "Unknown",
                   section |-> "Undefined", value |-> 0, size |-> 0])]

\* The contents of the metadata symbol: the length field, then the metadata.
MetadataSymbolData(serialized_data) ==
    MetadataLengthField(AsU64(Len(serialized_data))) \o serialized_data

AddMetadata(obj, serialized_data) ==
    AddDefinedSymbol(obj, WASMER_METADATA, "Data", "Data",
                     MetadataSymbolData(serialized_data))

RECURSIVE AddSections(_, _, _, _)
AddSections(obj, md, custom_sections, i) ==
    IF i > Len(custom_sections) THEN obj
    ELSE AddSections(
            AddDefinedSymbol(obj, get_section_name(md, i - 1),
                IF custom_sections[i].protection = "ReadExecute" THEN "Text" ELSE "Data",
                "Text", custom_sections[i].bytes),
            md, custom_sections, i + 1)

RECURSIVE AddFunctions(_, _, _, _)
AddFunctions(obj, md, function_bodies, i) ==
    IF i > Len(function_bodies) THEN obj
    ELSE AddFunctions(
            AddDefinedSymbol(obj, get_function_name(md, i - 1), "Text", "Text",
                             function_bodies[i]),
            md, function_bodies, i + 1)

\* Call trampoline symbols named by their signature index alone.
RECURSIVE AddCallTrampolines_unprefixed(_, _, _, _)
AddCallTrampolines_unprefixed(obj, md, trampolines, i) ==
    IF i > Len(trampolines) THEN obj
    ELSE AddCallTrampolines_unprefixed(
            AddDefinedSymbol(obj, TrampolineStem \o Decimal(i - 1), "Text", "Text",
                             trampolines[i]),
            md, trampolines, i + 1)

RECURSIVE AddCallTrampolines(_, _, _, _)
AddCallTrampolines(obj, md, trampolines, i) ==
    IF i > Len(trampolines) THEN obj
    ELSE AddCallTrampolines(
            AddDefinedSymbol(obj, get_function_call_trampoline_name(md, i - 1),
                             "Text", "Text", trampolines[i]),
            md, trampolines, i + 1)

RECURSIVE AddDynTrampolines(_, _, _, _)
AddDynTrampolines(obj, md, trampolines, i) ==
    IF i > Len(trampolines) THEN obj
    ELSE AddDynTrampolines(
            AddDefinedSymbol(obj, get_dynamic_function_trampoline_name(md, i - 1),
                             "Text", "Text", trampolines[i]),
            md, trampolines, i + 1)

\* all_relocations: (owning symbol, relocation) in the order they are visited.
AllRelocations(obj, md, function_relocations, custom_section_relocations) ==
    Concat([i \in DOMAIN function_relocations |->
               [k \in DOMAIN function_relocations[i] |->
                   [symbol_id |-> SymbolId(obj, get_function_name(md, i - 1)),
                    r |-> function_relocations[i][k]]]])
    \o
    Concat([i \in DOMAIN custom_section_relocations |->
               [k \in DOMAIN custom_section_relocations[i] |->
                   [symbol_id |-> SymbolId(obj, get_section_name(md, i - 1)),
                    r |-> custom_section_relocations[i][k]]]])

AddRelocationTo(obj, owner, r, target_symbol) ==
    [obj EXCEPT !.relocations =
        Append(@, [offset |-> obj.symbols[owner].value + r.offset, size |-> 32,
                   kind |-> "PltRelative", encoding |-> "X86Branch",
                   symbol |-> target_symbol, addend |-> r.addend])]

\* A loop that adds the libcall's symbol each time it meets the libcall.
EmitRelocation_eager(obj, md, owner, r) ==
    LET t == r.reloc_target IN
    CASE t.kind = "LocalFunc" ->
            AddRelocationTo(obj, owner, r, SymbolId(obj, get_function_name(md, t.index)))
      [] t.kind = "LibCall" ->
            LET obj2 == AddUndefinedSymbol(obj, LibCallName(t.index))
            IN AddRelocationTo(obj2, owner, r, Len(obj2.symbols))
      [] t.kind = "CustomSection" ->
            AddRelocationTo(obj, owner, r, SymbolId(obj, get_section_name(md, t.index)))
      [] t.kind = "JumpTable" -> obj

\* One relocation of the loop at lines 314-390.
EmitRelocation(obj, md, owner, r) ==
    LET t == r.reloc_target IN
    CASE t.kind = "LocalFunc" ->
            AddRelocationTo(obj, owner, r, SymbolId(obj, get_function_name(md, t.index)))
      [] t.kind = "LibCall" ->
            LET known == SymbolId(obj, LibCallName(t.index))
                obj2 == IF known = 0 THEN AddUndefinedSymbol(obj, LibCallName(t.index))
                        ELSE obj
            IN AddRelocationTo(obj2, owner, r, SymbolId(obj2, LibCallName(t.index)))
      [] t.kind = "CustomSection" ->
            AddRelocationTo(obj, owner, r, SymbolId(obj, get_section_name(md, t.index)))
      [] t.kind = "JumpTable" -> obj

RECURSIVE EmitRelocations(_, _, _, _)
EmitRelocations(obj, md, all_relocations, i) ==
    IF i > Len(all_relocations) THEN obj
    ELSE EmitRelocations(
            EmitRelocation(obj, md, all_relocations[i].symbol_id, all_relocations[i].r),
            md, all_relocations, i + 1)

\* The object `new` builds for a compilation (lines 182-391).
BuildObject(target_triple, md, data) ==
    LET o0 == NewObject(target_triple.format, target_triple.arch, "Little")
        o1 == AddMetadata(o0, BincodeSerialize(md))
        o2 == AddSections(o1, md, data.custom_sections, 1)
        o3 == AddFunctions(o2, md, data.function_bodies, 1)
        o4 == AddCallTrampolines(o3, md, data.function_call_trampolines, 1)
        o5 == AddDynTrampolines(o4, md, data.dynamic_function_trampolines, 1)
    IN EmitRelocations(o5, md,
           AllRelocations(o5, md, data.relocations, data.custom_section_relocations), 1)

\* The metadata `new` embeds (lines 122-127, 142-147, 187-198).
BuildMetadata(features, data) ==
    [compile_info |->
        [module |-> data.module, features |-> features,
         memory_plans |-> [i \in DOMAIN data.memories |-> MemoryPlanOf(data.memories[i])],
         table_plans |-> [i \in DOMAIN data.tables |-> TablePlanOf(data.tables[i])]],
     prefix |-> get_prefix(data),
     data_initializers |-> data.data_initializers,
     function_body_lengths |->
        [i \in DOMAIN data.function_bodies |-> Len(data.function_bodies[i])]]

(***************************************************************************)
(* Files, the linker and the dynamic loader.                               *)
(***************************************************************************)
\* A file that holds nothing after its leading bytes.
NoImage == [kind |-> "none"]

EmptyFile == [head |-> <<>>, image |-> NoImage]

RawFile(bytes) == [head |-> bytes, image |-> NoImage]

\* The first five bytes the toolchain writes for a target.
ImageHead(triple, kind) ==
    CASE triple.format = "elf" ->
            <<127, 69, 76, 70, IF PointerWidth(triple) = 32 THEN 1 ELSE 2>>
      [] triple.format = "macho" ->
            <<207, 250, 237, 254, IF triple.arch = "aarch64" THEN 12 ELSE 7>>
      [] triple.format = "coff" ->
            IF kind = "object" THEN <<100, 134, 2, 0, 0>> ELSE <<77, 90, 144, 0, 3>>

\* obj.write() written to the kept .o temp file.
ObjectFile(triple, obj) ==
    [head |-> ImageHead(triple, "object"),
     image |-> [kind |-> "object", target |-> triple, symbols |-> obj.symbols]]

SymbolBytes(obj, sym) ==
    SubSeq(IF sym.section = "Data" THEN obj.data ELSE obj.text,
           sym.value + 1, sym.value + sym.size)

\* The shared library `gcc -shared` / `clang-10 -shared` links from the object:
\* its defined dynamic symbols with their contents, and its undefined ones.
LinkSharedLibrary(triple, obj) ==
    LET defined == SelectSeq(obj.symbols, LAMBDA sym : sym.section # "Undefined")
        undefined == SelectSeq(obj.symbols, LAMBDA sym : sym.section = "Undefined")
    IN [head |-> ImageHead(triple, "dylib"),
        image |-> [kind |-> "dylib", target |-> triple,
                   symbols |-> [i \in DOMAIN defined |->
                                   [name |-> defined[i].name,
                                    bytes |-> SymbolBytes(obj, defined[i])]],
                   undefined |-> [i \in DOMAIN undefined |-> undefined[i].name]]]

\* A library whose dynamic symbol table lacks the names with this stem.
WithoutSymbols(file, stem) ==
    [file EXCEPT !.image.symbols =
        SelectSeq(@, LAMBDA sym : ~StartsWith(sym.name, stem))]

\* A linker run that exits successfully and leaves one kind of symbol out of
\* the library's dynamic symbol table.
Unexported ==
    [unexported_functions |-> FunctionStem,
     unexported_trampolines |-> TrampolineStem,
     unexported_dynamic_trampolines |-> DynTrampolineStem]

\* The library the linker run leaves at shared_filepath.
Linked(triple, obj, io) ==
    IF io \in DOMAIN Unexported
    THEN WithoutSymbols(LinkSharedLibrary(triple, obj), Unexported[io])
    ELSE LinkSharedLibrary(triple, obj)

FileLen(file) == IF file.image.kind = "none" THEN Len(file.head) ELSE Huge

\* Library::new(path): the loader maps shared libraries built for the host.
CanLoad(h, file) ==
    /\ file.image.kind = "dylib"
    /\ file.image.target = h

\* Addresses: the library at path p is mapped at p * AddrStride, its k-th
\* symbol at offset k.  Address 0 is null.
AddrStride == 64

\* lib.get(name): the symbol's address, 0 when the library has no such symbol.
LibGet(path, image, name) ==
    IF \E k \in DOMAIN image.symbols : image.symbols[k].name = name
    THEN path * AddrStride
            + (CHOOSE k \in DOMAIN image.symbols : image.symbols[k].name = name)
    ELSE 0

\* The bytes stored at a symbol of the library.
LibBytes(image, name) ==
    image.symbols[CHOOSE k \in DOMAIN image.symbols : image.symbols[k].name = name].bytes

(***************************************************************************)
(* The engine: trampoline table and signature registry.                    *)
(***************************************************************************)
\* SignatureRegistry::register: the id of a known signature, else a new id.
RegistryLookup(registry, sig) ==
    IF \E i \in DOMAIN registry : registry[i] = sig
    THEN (CHOOSE i \in DOMAIN registry : registry[i] = sig) - 1
    ELSE Len(registry)

Register(registry, sig) ==
    IF \E i \in DOMAIN registry : registry[i] = sig THEN registry
    ELSE Append(registry, sig)

\* engine_inner.add_trampoline(&func_type, trampoline)
add_trampoline(eng, func_type, trampoline) ==
    [eng EXCEPT !.trampolines =
        [ft \in DOMAIN @ \cup {func_type} |->
            IF ft = func_type THEN trampoline ELSE @[ft]]]

(***************************************************************************)
(* Hydration.                                                              *)
(***************************************************************************)
\* Option<Library>: None, or the library opened from a path.
NoLibrary == [open |-> FALSE, path |-> 0]

Library(path) == [open |-> TRUE, path |-> path]

CodegenError(msg) == [status |-> "Err", err |-> "CompileError::Codegen", msg |-> msg]

\* A cross-compile path that keeps a handle on the linked library.
from_parts_crosscompiled_opening(metadata, sharedobject_path) ==
    [sharedobject_path |-> sharedobject_path,
     metadata |-> metadata,
     library |-> Library(sharedobject_path),
     finished_functions |-> <<>>,
     finished_dynamic_function_trampolines |-> <<>>,
     signatures |-> <<>>]

from_parts_crosscompiled(metadata, sharedobject_path) ==
    [sharedobject_path |-> sharedobject_path,
     metadata |-> metadata,
     library |-> NoLibrary,
     finished_functions |-> <<>>,
     finished_dynamic_function_trampolines |-> <<>>,
     signatures |-> <<>>]

\* A loop that pushes each pointer at the front of the table.
FinishFunctions_reversed(metadata, path, image) ==
    [i \in DOMAIN metadata.function_body_lengths |->
        [addr |-> LibGet(path, image,
                         get_function_name(metadata,
                             Len(metadata.function_body_lengths) - i)),
         len |-> metadata.function_body_lengths[
                    Len(metadata.function_body_lengths) + 1 - i]]]

\* Lines 519-538: one fat pointer per entry of function_body_lengths.
FinishFunctions(metadata, path, image) ==
    [i \in DOMAIN metadata.function_body_lengths |->
        [addr |-> LibGet(path, image, get_function_name(metadata, i - 1)),
         len |-> metadata.function_body_lengths[i]]]

\* Lines 541-549: the call trampoline of every signature is added to the
\* engine, up to the first one the library lacks.
RECURSIVE AddTrampolines(_, _, _, _, _)
AddTrampolines(eng, metadata, path, image, i) ==
    IF i > Len(metadata.compile_info.module.signatures)
    THEN [ok |-> TRUE, engine |-> eng]
    ELSE LET trampoline ==
                LibGet(path, image, get_function_call_trampoline_name(metadata, i - 1))
         IN IF trampoline = 0
            THEN [ok |-> FALSE, engine |-> eng]
            ELSE AddTrampolines(
                    add_trampoline(eng, metadata.compile_info.module.signatures[i],
                                   trampoline),
                    metadata, path, image, i + 1)

\* A loop that asks for the call trampoline's name, as the loop before it does.
FinishDynamicTrampolines_call_names(metadata, path, image) ==
    LET module == metadata.compile_info.module
        n == IF module.num_imported_funcs < Len(module.functions)
             THEN module.num_imported_funcs ELSE Len(module.functions)
    IN [f \in 1..n |->
           [addr |-> LibGet(path, image,
                            get_function_call_trampoline_name(metadata, f - 1)),
            len |-> 0]]

\* Lines 551-574: functions.keys().take(num_imported_funcs).
FinishDynamicTrampolines(metadata, path, image) ==
    LET module == metadata.compile_info.module
        n == IF module.num_imported_funcs < Len(module.functions)
             THEN module.num_imported_funcs ELSE Len(module.functions)
    IN [f \in 1..n |->
           [addr |-> LibGet(path, image,
                            get_dynamic_function_trampoline_name(metadata, f - 1)),
            len |-> 0]]

\* A loop that keeps the module's own index as the id of each signature.
RECURSIVE RegisterSignatures_own_index(_, _, _, _)
RegisterSignatures_own_index(registry, sigs, i, ids) ==
    IF i > Len(sigs) THEN [registry |-> registry, ids |-> ids]
    ELSE RegisterSignatures_own_index(Register(registry, sigs[i]), sigs, i + 1,
                                      Append(ids, i - 1))

\* Lines 591-600: every module signature is registered, in index order.
RECURSIVE RegisterSignatures(_, _, _, _)
RegisterSignatures(registry, sigs, i, ids) ==
    IF i > Len(sigs) THEN [registry |-> registry, ids |-> ids]
    ELSE RegisterSignatures(Register(registry, sigs[i]), sigs, i + 1,
                            Append(ids, RegistryLookup(registry, sigs[i])))

from_parts(eng, metadata, sharedobject_path, image) ==
    LET funcs == FinishFunctions(metadata, sharedobject_path, image)
        tramps == AddTrampolines(eng, metadata, sharedobject_path, image, 1)
        dyns == FinishDynamicTrampolines(metadata, sharedobject_path, image)
        regd == RegisterSignatures(tramps.engine.signatures,
                                   metadata.compile_info.module.signatures, 1, <<>>)
    IN IF \E i \in DOMAIN funcs : funcs[i].addr = 0
       THEN [res |-> CodegenError("symbol not found"), engine |-> eng,
             artifact |-> NoValue]
       ELSE IF ~tramps.ok
       THEN [res |-> CodegenError("symbol not found"), engine |-> tramps.engine,
             artifact |-> NoValue]
       ELSE IF \E f \in DOMAIN dyns : dyns[f].addr = 0
       THEN [res |-> CodegenError("symbol not found"), engine |-> tramps.engine,
             artifact |-> NoValue]
       ELSE [res |-> [status |-> "Ok", err |-> NoValue, msg |-> NoValue],
             engine |-> [tramps.engine EXCEPT !.signatures = regd.registry],
             artifact |->
                [sharedobject_path |-> sharedobject_path,
                 metadata |-> metadata,
                 library |-> Library(sharedobject_path),
                 finished_functions |-> funcs,
                 finished_dynamic_function_trampolines |-> dyns,
                 signatures |-> regd.ids]]

(***************************************************************************)
(* State.                                                                  *)
(***************************************************************************)
VARIABLES
    host,        \* the triple this build runs on
    engine,      \* the NativeEngine: target, compiler, trampolines, signatures
    files,       \* the file system: path p holds files[p]
    artifacts,   \* the NativeArtifacts alive
    provenance,  \* for each artifact, the operation that returned it
    result,      \* what the last call returned
    arcs,        \* for each artifact, the counts of its Arc<ModuleInfo>
    length_field,\* a metadata length on its way through the length field
    emission     \* an object on its way through the relocation loop

vars == <<host, engine, files, artifacts, provenance, result, arcs, length_field,
          emission>>

\* The parts of the state the calls on artifacts leave alone.
aside == <<length_field, emission>>

\* Arc::new: one strong reference, held by the artifact, and the weak one
\* the strong ones share; no referent outside the artifact.
NewArc == [strong |-> 1, weak |-> 1, referents |-> <<>>]

\* No length is being written, no object is being relocated.
Idle == [pc |-> "idle"]

DefaultFeatures == <<0, 0, 0, 1, 1>>

NewEngine(target, compiler) ==
    [target |-> target, compiler |-> compiler, features |-> DefaultFeatures,
     trampolines |-> <<>>, signatures |-> <<>>]

\* The target a cross-compiling engine is configured for: one whose libraries
\* start like the host's on the ELF hosts, and unlike them elsewhere.
CrossTarget(h) ==
    CASE h = Linux64 -> LinuxArm
      [] h = FreeBSD64 -> Linux64
      [] h = Linux32 -> Linux64
      [] h = MacOS64 -> Windows64
      [] h = Windows64 -> Linux64

\* The engines a process may be given: for the host, cross-compiling, for a
\* target without object format, or headless.
Engines(h) ==
    {NewEngine(h, TRUE), NewEngine(CrossTarget(h), TRUE)}
        \cup (IF h = MacOS64 THEN {NewEngine(Wasm32, TRUE)} ELSE {})
        \cup (IF h = Windows64 THEN {NewEngine(h, FALSE)} ELSE {})

Ok == [status |-> "Ok", err |-> NoValue, msg |-> NoValue]

Error(err, msg) == [status |-> "Err", err |-> err, msg |-> msg]

\* What a call returned: its status and error, the artifact it returned or
\* was called on, and whether it opened a library.
Result(op, res, artifact, opened) ==
    [op |-> op, status |-> res.status, err |-> res.err, msg |-> res.msg,
     args |-> IF "args" \in DOMAIN res THEN res.args ELSE <<>>,
     artifact |-> artifact, opened |-> opened]

Init ==
    /\ host \in Hosts
    /\ engine \in Engines(host)
    /\ files = <<>>
    /\ artifacts = <<>>
    /\ provenance = <<>>
    /\ result = Result("init", Ok, 0, FALSE)
    /\ arcs = <<>>
    /\ length_field = Idle
    /\ emission = Idle

(***************************************************************************)
(* NativeArtifact::new                                                     *)
(***************************************************************************)
\* What the operating system and the toolchain do during a call: all goes
\* well, no temp file can be created, the linker cannot be started, the linker
\* exits non-zero, or the loader refuses the linked library.
NewIo == {"ok", "tempfile", "spawn", "exit", "load"}

\* String::from_utf8_lossy: ASCII bytes are their own characters, a byte that
\* no UTF-8 sequence holds (0xFF) becomes U+FFFD.
from_utf8_lossy(bytes) ==
    [i \in DOMAIN bytes |-> IF bytes[i] < 128 THEN bytes[i] ELSE 65533]

\* char::is_whitespace on the characters of the model: tab, line feed,
\* vertical tab, form feed, carriage return, space.
WhiteSpace == {9, 10, 11, 12, 13, 32}

\* A trim that leaves the string as it is.
trim_end_untrimmed(str) == str

\* str::trim_end
RECURSIVE trim_end(_)
trim_end(str) ==
    IF str # <<>> /\ str[Len(str)] \in WhiteSpace
    THEN trim_end(SubSeq(str, 1, Len(str) - 1))
    ELSE str

\* What the linker wrote to its pipes: nothing, or a failing run's lines
\* ("ld: x\n" with blanks around it, a line with a stray byte, a banner).
Quiet == [stderr |-> <<>>, stdout |-> <<>>]

FailedOutputs ==
    {Quiet,
     [stderr |-> <<108, 100, 58, 32, 120, 10>>, stdout |-> <<>>],
     [stderr |-> <<32, 108, 100, 255, 32, 13, 10, 9>>,
      stdout |-> <<103, 99, 99, 10, 10>>]}

Outputs(io) == IF io = "exit" THEN FailedOutputs ELSE {Quiet}

\* format!("Shared object file generator failed with:\nstderr:{}\nstdout:{}")
\* with the two arguments kept beside the format string.
LinkerFailed(output) ==
    [status |-> "Err", err |-> "CompileError::Codegen",
     msg |-> "Shared object file generator failed with:\nstderr:{}\nstdout:{}",
     args |-> <<trim_end(from_utf8_lossy(output.stderr)),
                trim_end(from_utf8_lossy(output.stdout))>>]

\* What `new` returns and leaves behind: the files it created (in order),
\* the engine afterwards, the artifact, and whether a library was opened.
NewOutcome(h, eng, data, io, output, next_path) ==
    LET target_triple == eng.target
        metadata == BuildMetadata(eng.features, data)
        obj == BuildObject(target_triple, metadata, data)
        is_cross_compiling == target_triple # h
        shared_filepath == next_path + 1
        failed(res, created) ==
            [res |-> res, created |-> created, engine |-> eng,
             artifact |-> NoValue, opened |-> FALSE]
    IN
    IF ~data.valid THEN failed(Error("CompileError::Wasm", "translate"), <<>>)
    ELSE IF ~eng.compiler THEN failed(CodegenError("headless"), <<>>)
    ELSE IF target_triple.format \notin {"elf", "macho", "coff"}
    THEN failed(CodegenError("Binary format not supported"), <<>>)
    ELSE IF target_triple.arch \notin {"x86_64", "aarch64"}
    THEN failed(CodegenError("Architecture not supported"), <<>>)
    ELSE IF io = "tempfile" THEN failed(CodegenError("tempfile"), <<>>)
    ELSE IF io = "spawn"
    THEN failed(CodegenError("spawn"), <<ObjectFile(target_triple, obj), EmptyFile>>)
    ELSE IF io = "exit"
    THEN failed(LinkerFailed(output), <<ObjectFile(target_triple, obj), EmptyFile>>)
    ELSE LET created == <<ObjectFile(target_triple, obj),
                          Linked(target_triple, obj, io)>>
         IN IF is_cross_compiling
            THEN [res |-> Ok, created |-> created, engine |-> eng,
                  artifact |-> from_parts_crosscompiled(metadata, shared_filepath),
                  opened |-> FALSE]
            ELSE IF io = "load" \/ ~CanLoad(h, created[2])
            THEN failed(CodegenError("Library::new"), created)
            ELSE LET hydrated == from_parts(eng, metadata, shared_filepath,
                                            created[2].image)
                 IN [res |-> hydrated.res, created |-> created,
                     engine |-> hydrated.engine, artifact |-> hydrated.artifact,
                     opened |-> TRUE]

\* Commit an outcome: new files, the engine, and the artifact if there is one.
Commit(op, out, origin) ==
    /\ files' = files \o out.created
    /\ engine' = out.engine
    /\ IF out.res.status # "Ok"
       THEN /\ UNCHANGED <<artifacts, provenance, arcs>>
            /\ result' = Result(op, out.res, 0, out.opened)
       ELSE /\ artifacts' = Append(artifacts, out.artifact)
            /\ provenance' = Append(provenance, origin)
            /\ arcs' = Append(arcs, NewArc)
            /\ result' = Result(op, out.res, Len(artifacts) + 1, out.opened)
    /\ UNCHANGED <<host, aside>>

New(data, io, output) ==
    /\ Len(artifacts) < MaxArtifacts
    /\ Len(files) + 2 <= MaxFiles
    /\ Commit("new", NewOutcome(host, engine, data, io, output, Len(files) + 1),
              [op |-> "new", cross |-> engine.target # host])

(***************************************************************************)
(* NativeArtifact::deserialize*                                            *)
(***************************************************************************)
CorruptedBinary(msg) == Error("DeserializeError::CorruptedBinary", msg)

Incompatible ==
    Error("DeserializeError::Incompatible",
          "The provided bytes are not in any native format Wasmer can understand")

IoError(msg) == Error("DeserializeError::Io", msg)

UndefinedBehaviour == Error("UndefinedBehaviour", "read past the symbol")

\* bincode::deserialize of the metadata slice, as [ok, res, val].
DecodeResult(decoded) ==
    IF decoded.ok THEN [ok |-> TRUE, res |-> Ok, val |-> decoded.val]
    ELSE [ok |-> FALSE, res |-> CorruptedBinary("bincode"), val |-> NoValue]

\* slice::from_raw_parts(&size[10], metadata_len): the bytes after the length
\* field.  A length that reaches past the symbol reads foreign memory.
MetadataSlice(h, bytes, metadata_len) ==
    IF ~metadata_len.ok
    THEN [ok |-> FALSE, res |-> CorruptedBinary("Can't read metadata size"),
          val |-> NoValue]
    ELSE IF 10 + AsUsize(h, metadata_len.val) > Len(bytes)
    THEN [ok |-> FALSE, res |-> UndefinedBehaviour, val |-> NoValue]
    ELSE DecodeResult(BincodeDeserialize(
            SubSeq(bytes, 10 + 1, 10 + AsUsize(h, metadata_len.val))))

\* The metadata stored at the symbol: the first 10 + 1 bytes hold the length.
MetadataAt(h, bytes) ==
    IF Len(bytes) < 10 + 1
    THEN [ok |-> FALSE, res |-> UndefinedBehaviour, val |-> NoValue]
    ELSE MetadataSlice(h, bytes, Leb128Read(SubSeq(bytes, 1, 10 + 1)))

ReadMetadata(h, image) == MetadataAt(h, LibBytes(image, WASMER_METADATA))

\* A loader that hands the error of from_parts on as it is.
Hydrated_unwrapped(hydrated, created) ==
    [res |-> hydrated.res,
     created |-> created, engine |-> hydrated.engine,
     artifact |-> hydrated.artifact, opened |-> TRUE]

\* from_parts(...).map_err(DeserializeError::Compiler)
Hydrated(hydrated, created) ==
    [res |-> IF hydrated.res.status = "Ok" THEN Ok
             ELSE Error("DeserializeError::Compiler", hydrated.res.msg),
     created |-> created, engine |-> hydrated.engine,
     artifact |-> hydrated.artifact, opened |-> TRUE]

HydrateWith(eng, path, file, created, metadata) ==
    IF ~metadata.ok
    THEN [res |-> metadata.res, created |-> created, engine |-> eng,
          artifact |-> NoValue, opened |-> TRUE]
    ELSE Hydrated(from_parts(eng, metadata.val, path, file.image), created)

UncheckedOutcome(h, eng, path, file, created) ==
    IF ~CanLoad(h, file)
    THEN [res |-> CorruptedBinary("Library loading failed"), created |-> created,
          engine |-> eng, artifact |-> NoValue, opened |-> FALSE]
    ELSE IF LibGet(path, file.image, WASMER_METADATA) = 0
    THEN [res |-> CorruptedBinary(
                    "The provided object file doesn't seem to be generated by Wasmer"),
          created |-> created, engine |-> eng, artifact |-> NoValue, opened |-> TRUE]
    ELSE HydrateWith(eng, path, file, created, ReadMetadata(h, file.image))

DeserializeIo == {"ok", "tempfile"}

\* A deserialize that dumps the bytes into the temp file before it looks at
\* the header.
DeserializeOutcome_dump_first(h, eng, bytes, io, next_path) ==
    IF io = "tempfile"
    THEN [res |-> IoError("tempfile"), created |-> <<>>, engine |-> eng,
          artifact |-> NoValue, opened |-> FALSE]
    ELSE IF ~is_deserializable(h, bytes.head)
    THEN [res |-> Incompatible, created |-> <<bytes>>, engine |-> eng,
          artifact |-> NoValue, opened |-> FALSE]
    ELSE UncheckedOutcome(h, eng, next_path, bytes, <<bytes>>)

DeserializeOutcome(h, eng, bytes, io, next_path) ==
    LET failed(res, created) ==
            [res |-> res, created |-> created, engine |-> eng,
             artifact |-> NoValue, opened |-> FALSE]
    IN
    IF ~is_deserializable(h, bytes.head) THEN failed(Incompatible, <<>>)
    ELSE IF io = "tempfile" THEN failed(IoError("tempfile"), <<>>)
    ELSE UncheckedOutcome(h, eng, next_path, bytes, <<bytes>>)

\* Byte strings that are a bare magic header.
MagicOnly ==
    {RawFile(m) : m \in {MAGIC_HEADER_MH_CIGAM_64, MAGIC_HEADER_ELF_32,
                         MAGIC_HEADER_ELF_64, MAGIC_HEADER_COFF_64}}

DeserializeInputs == Range(files) \cup MagicOnly \cup {RawFile(<<0, 1, 2, 3, 4>>)}

Deserialize(bytes, io) ==
    /\ Len(artifacts) < MaxArtifacts
    /\ Len(files) + 1 <= MaxFiles
    /\ Commit("deserialize",
              DeserializeOutcome(host, engine, bytes, io, Len(files) + 1),
              [op |-> "deserialize", cross |-> FALSE])

DeserializeFromFileOutcome(h, eng, path, fs) ==
    LET failed(res) ==
            [res |-> res, created |-> <<>>, engine |-> eng,
             artifact |-> NoValue, opened |-> FALSE]
    IN
    IF path \notin DOMAIN fs THEN failed(IoError("File::open"))
    ELSE IF FileLen(fs[path]) < 5 THEN failed(IoError("read_exact"))
    ELSE IF ~is_deserializable(h, SubSeq(fs[path].head, 1, 5)) THEN failed(Incompatible)
    ELSE UncheckedOutcome(h, eng, path, fs[path], <<>>)

DeserializeFromFile(path) ==
    /\ Len(artifacts) < MaxArtifacts
    /\ Commit("deserialize_from_file",
              DeserializeFromFileOutcome(host, engine, path, files),
              [op |-> "deserialize_from_file", cross |-> FALSE])

DeserializeFromFileUnchecked(path) ==
    /\ Len(artifacts) < MaxArtifacts
    /\ Commit("deserialize_from_file_unchecked",
              IF path \in DOMAIN files
              THEN UncheckedOutcome(host, engine, path, files[path], <<>>)
              ELSE [res |-> CorruptedBinary("Library loading failed"),
                    created |-> <<>>, engine |-> engine, artifact |-> NoValue,
                    opened |-> FALSE],
              [op |-> "deserialize_from_file_unchecked", cross |-> FALSE])

(***************************************************************************)
(* impl Artifact for NativeArtifact                                        *)
(***************************************************************************)
\* A preinstantiate that does not look at the library.
preinstantiate_unguarded(artifact) == Ok

preinstantiate(artifact) ==
    IF ~artifact.library.open
    THEN Error("InstantiationError::Link",
               "Cross compiled artifacts can't be instantiated.")
    ELSE Ok

\* A serialize that reads the object file written just before the library.
serialize_object_file(artifact, fs) ==
    IF artifact.sharedobject_path - 1 \in DOMAIN fs
    THEN [res |-> Ok, bytes |-> fs[artifact.sharedobject_path - 1]]
    ELSE [res |-> Error("SerializeError::Io", "read"), bytes |-> NoValue]

\* std::fs::read(&self.sharedobject_path)
serialize(artifact, fs) ==
    IF artifact.sharedobject_path \in DOMAIN fs
    THEN [res |-> Ok, bytes |-> fs[artifact.sharedobject_path]]
    ELSE [res |-> Error("SerializeError::Io", "read"), bytes |-> NoValue]

Preinstantiate(a) ==
    /\ result' = Result("preinstantiate", preinstantiate(artifacts[a]), a, FALSE)
    /\ UNCHANGED <<host, engine, files, artifacts, provenance, arcs, aside>>

\* A serialize that empties the file it has read.
Serialize_consuming(a) ==
    /\ result' = Result("serialize", serialize(artifacts[a], files).res, a, FALSE)
    /\ files' = [files EXCEPT ![artifacts[a].sharedobject_path] = EmptyFile]
    /\ UNCHANGED <<host, engine, artifacts, provenance, arcs, aside>>

Serialize(a) ==
    /\ result' = Result("serialize", serialize(artifacts[a], files).res, a, FALSE)
    /\ UNCHANGED <<host, engine, files, artifacts, provenance, arcs, aside>>

Accessors ==
    {"features", "data_initializers", "memory_plans", "table_plans",
     "finished_functions", "finished_dynamic_function_trampolines", "signatures"}

Access(artifact, accessor) ==
    CASE accessor = "features" -> artifact.metadata.compile_info.features
      [] accessor = "data_initializers" -> artifact.metadata.data_initializers
      [] accessor = "memory_plans" -> artifact.metadata.compile_info.memory_plans
      [] accessor = "table_plans" -> artifact.metadata.compile_info.table_plans
      [] accessor = "finished_functions" -> artifact.finished_functions
      [] accessor = "finished_dynamic_function_trampolines" ->
            artifact.finished_dynamic_function_trampolines
      [] accessor = "signatures" -> artifact.signatures

\* The getters return references into the artifact and change nothing.
Accessor(a, accessor) ==
    /\ UNCHANGED <<host, engine, files, artifacts, provenance, arcs, aside>>
    /\ Access(artifacts[a], accessor) = Access(artifacts'[a], accessor)
    /\ result' = Result("accessor", Ok, a, FALSE)

Next ==
    \/ \E data \in WasmInputs, io \in NewIo :
            \E output \in Outputs(io) : New(data, io, output)
    \/ \E bytes \in DeserializeInputs, io \in DeserializeIo : Deserialize(bytes, io)
    \/ \E path \in 1..(Len(files) + 1) : DeserializeFromFile(path)
    \/ \E path \in 1..(Len(files) + 1) : DeserializeFromFileUnchecked(path)
    \/ \E a \in DOMAIN artifacts : Preinstantiate(a)
    \/ \E a \in DOMAIN artifacts : Serialize(a)
    \/ \E a \in DOMAIN artifacts, accessor \in Accessors : Accessor(a, accessor)

Spec == Init /\ [][Next]_vars

(***************************************************************************)
(* The length field on its own: `new` writes serialized_data.len() as u64  *)
(* into metadata_length (lines 200-206) and the loader reads it back from  *)
(* the first bytes of the symbol (lines 691-696).  The lengths are drawn   *)
(* from all of u64; data too long to hold is kept by its first byte only.  *)
(***************************************************************************)
\* 2^k as a u64
Bit(k) == Shl(1, k)

\* 2^k - 1 as a u64, for k up to 64
Ones(k) ==
    [i \in 1..4 |-> IF i < (k \div 16) + 1 THEN 65535
                    ELSE IF i = (k \div 16) + 1 THEN Pow2(k % 16) - 1
                    ELSE 0]

Lengths ==
    {Bit(k) : k \in 0..63} \cup {Ones(k) : k \in 0..64}
        \cup [1..4 -> {0, 129, 65535}]

\* The metadata `new` serializes for the modules of the model.
SerializedData ==
    {BincodeSerialize(BuildMetadata(DefaultFeatures, data)) :
        data \in {WasmImport, WasmCalls}}

InitLength ==
    /\ host = Linux64
    /\ engine = NewEngine(host, TRUE)
    /\ files = <<>>
    /\ artifacts = <<>>
    /\ provenance = <<>>
    /\ result = Result("init", Ok, 0, FALSE)
    /\ arcs = <<>>
    /\ emission = Idle
    /\ \/ \E serialized_data \in SerializedData :
            length_field = [pc |-> "serialized", whole |-> TRUE,
                            len |-> AsU64(Len(serialized_data)),
                            serialized_data |-> serialized_data]
       \/ \E len \in Lengths, first \in {0, 255} :
            length_field = [pc |-> "serialized", whole |-> FALSE,
                            len |-> len, serialized_data |-> <<first>>]

\* lines 202-206: the ten bytes, then the metadata
WriteLength ==
    /\ length_field.pc = "serialized"
    /\ length_field' =
            [pc |-> "written", whole |-> length_field.whole,
             len |-> length_field.len,
             serialized_data |-> length_field.serialized_data,
             metadata_length |->
                MetadataLengthField(length_field.len)
                    \o length_field.serialized_data]
    /\ UNCHANGED <<host, engine, files, artifacts, provenance, result, arcs,
                   emission>>

\* lines 691-696: the loader's view of the symbol is its first 10 + 1 bytes
ReadLength ==
    /\ length_field.pc = "written"
    /\ length_field' =
            [pc |-> "read", whole |-> length_field.whole,
             len |-> length_field.len,
             serialized_data |-> length_field.serialized_data,
             metadata_length |-> length_field.metadata_length,
             metadata_len |->
                Leb128Read(SubSeq(length_field.metadata_length, 1, 10 + 1))]
    /\ UNCHANGED <<host, engine, files, artifacts, provenance, result, arcs,
                   emission>>

NextLength == WriteLength \/ ReadLength

SpecLength == InitLength /\ [][NextLength]_vars

(***************************************************************************)
(* Libraries edited behind the program's back.  The loader takes whatever  *)
(* the file holds (lines 674-703), so between the calls a linked library   *)
(* may have the length field of its metadata symbol overwritten or some of *)
(* its symbols stripped, and the linker itself may leave symbols out.  The *)
(* engine compiles for its own host here.                                  *)
(***************************************************************************)
\* The first ten bytes of the metadata symbol replaced by 0xFF.
OverwrittenLength(file) ==
    [file EXCEPT !.image.symbols =
        [k \in DOMAIN @ |->
            IF @[k].name = WASMER_METADATA
            THEN [@[k] EXCEPT !.bytes =
                    [i \in DOMAIN @ |-> IF i <= 10 THEN 255 ELSE @[i]]]
            ELSE @[k]]]

HasMetadataSymbol(file) ==
    /\ file.image.kind = "dylib"
    /\ \E k \in DOMAIN file.image.symbols :
            file.image.symbols[k].name = WASMER_METADATA

\* The library at the path is a valid artifact: the call before linked it
\* and hydrated an artifact from it.
Valid(path) ==
    /\ result.op = "new"
    /\ result.status = "Ok"
    /\ path = artifacts[result.artifact].sharedobject_path

Edited(path, file) ==
    /\ files' = [files EXCEPT ![path] = file]
    /\ result' = Result("edit", Ok, 0, FALSE)
    /\ UNCHANGED <<host, engine, artifacts, provenance, arcs, aside>>

OverwriteLength(path) ==
    /\ Valid(path)
    /\ HasMetadataSymbol(files[path])
    /\ Edited(path, OverwrittenLength(files[path]))

\* strip -N on the symbols of one kind (what lines 519-574 look up).
StripSymbols(path, stem) ==
    /\ Valid(path)
    /\ WithoutSymbols(files[path], stem) # files[path]
    /\ Edited(path, WithoutSymbols(files[path], stem))

InitTampered ==
    /\ host \in {Linux64, FreeBSD64}
    /\ engine = NewEngine(host, TRUE)
    /\ files = <<>>
    /\ artifacts = <<>>
    /\ provenance = <<>>
    /\ result = Result("init", Ok, 0, FALSE)
    /\ arcs = <<>>
    /\ length_field = Idle
    /\ emission = Idle

NextTampered ==
    \/ \E data \in {WasmImport, WasmCalls},
          io \in {"ok", "load"} \cup DOMAIN Unexported : New(data, io, Quiet)
    \/ \E path \in DOMAIN files : OverwriteLength(path)
    \/ \E path \in DOMAIN files,
          stem \in {FunctionStem, TrampolineStem, DynTrampolineStem} :
            StripSymbols(path, stem)
    \/ \E bytes \in Range(files) : Deserialize(bytes, "ok")
    \/ \E path \in DOMAIN files : DeserializeFromFile(path)
    \/ \E path \in DOMAIN files : DeserializeFromFileUnchecked(path)

SpecTampered == InitTampered /\ [][NextTampered]_vars

(***************************************************************************)
(* The shared module handle (lines 709-719).  module() clones the          *)
(* artifact's Arc<ModuleInfo>; its callers clone, downgrade, upgrade and   *)
(* drop what they hold; module_mut asks Arc::get_mut.  The Arc keeps its   *)
(* two counters, the callers keep their referents.                         *)
(***************************************************************************)
Remove(seq, k) == SubSeq(seq, 1, k - 1) \o SubSeq(seq, k + 1, Len(seq))

\* The number of referents the callers hold, over all artifacts.
RECURSIVE Held(_)
Held(a) == IF a = 0 THEN 0 ELSE Len(arcs[a].referents) + Held(a - 1)

\* An Arc::get_mut that looks at the strong count only.
get_mut_strong_only(arc) == IF arc.strong = 1 THEN "Some" ELSE "None"

\* Arc::get_mut: is_unique, no other Arc and no Weak.
get_mut(arc) == IF arc.weak = 1 /\ arc.strong = 1 THEN "Some" ELSE "None"

Returned(op, a, status) ==
    /\ result' = Result(op, [status |-> status, err |-> NoValue, msg |-> NoValue],
                        a, FALSE)
    /\ UNCHANGED <<host, engine, files, artifacts, provenance, aside>>

\* module(): self.metadata.compile_info.module.clone()
Module(a) ==
    /\ Held(Len(arcs)) < MaxHandles
    /\ arcs' = [arcs EXCEPT ![a].strong = @ + 1,
                            ![a].referents = Append(@, "Arc")]
    /\ Returned("module", a, "Ok")

\* Arc::clone of a handle
CloneHandle(a, k) ==
    /\ Held(Len(arcs)) < MaxHandles
    /\ arcs[a].referents[k] = "Arc"
    /\ arcs' = [arcs EXCEPT ![a].strong = @ + 1,
                            ![a].referents = Append(@, "Arc")]
    /\ Returned("clone", a, "Ok")

\* Arc::downgrade of a handle
Downgrade(a, k) ==
    /\ Held(Len(arcs)) < MaxHandles
    /\ arcs[a].referents[k] = "Arc"
    /\ arcs' = [arcs EXCEPT ![a].weak = @ + 1,
                            ![a].referents = Append(@, "Weak")]
    /\ Returned("downgrade", a, "Ok")

\* Weak::upgrade: the artifact keeps the strong count above zero
Upgrade(a, k) ==
    /\ Held(Len(arcs)) < MaxHandles
    /\ arcs[a].referents[k] = "Weak"
    /\ arcs' = [arcs EXCEPT ![a].strong = @ + 1,
                            ![a].referents = Append(@, "Arc")]
    /\ Returned("upgrade", a, "Ok")

\* drop of a handle or of a Weak
DropHandle(a, k) ==
    /\ arcs' = [arcs EXCEPT
                    ![a].strong = IF arcs[a].referents[k] = "Arc" THEN @ - 1 ELSE @,
                    ![a].weak = IF arcs[a].referents[k] = "Weak" THEN @ - 1 ELSE @,
                    ![a].referents = Remove(@, k)]
    /\ Returned("drop", a, "Ok")

\* module_mut(): Arc::get_mut(&mut self.metadata.compile_info.module)
ModuleMut(a) ==
    /\ UNCHANGED arcs
    /\ Returned("module_mut", a, get_mut(arcs[a]))

InitHandles ==
    /\ host = Linux64
    /\ engine = NewEngine(host, TRUE)
    /\ files = <<>>
    /\ artifacts = <<>>
    /\ provenance = <<>>
    /\ result = Result("init", Ok, 0, FALSE)
    /\ arcs = <<>>
    /\ length_field = Idle
    /\ emission = Idle

NextHandles ==
    \/ \E data \in {WasmImport, WasmCalls} : New(data, "ok", Quiet)
    \/ \E path \in 1..(Len(files) + 1) : DeserializeFromFile(path)
    \/ \E a \in DOMAIN artifacts : Module(a)
    \/ \E a \in DOMAIN artifacts, k \in 1..MaxHandles :
            k \in DOMAIN arcs[a].referents /\ CloneHandle(a, k)
    \/ \E a \in DOMAIN artifacts, k \in 1..MaxHandles :
            k \in DOMAIN arcs[a].referents /\ Downgrade(a, k)
    \/ \E a \in DOMAIN artifacts, k \in 1..MaxHandles :
            k \in DOMAIN arcs[a].referents /\ Upgrade(a, k)
    \/ \E a \in DOMAIN artifacts, k \in 1..MaxHandles :
            k \in DOMAIN arcs[a].referents /\ DropHandle(a, k)
    \/ \E a \in DOMAIN artifacts : ModuleMut(a)

SpecHandles == InitHandles /\ [][NextHandles]_vars

(***************************************************************************)
(* The relocation loop on its own (lines 299-391): the object holds the    *)
(* metadata, sections, functions and trampolines, and the relocations the  *)
(* compiler returned are visited one at a time.  The compilation is that   *)
(* of WasmCalls with its relocations drawn from every short list.          *)
(***************************************************************************)
RelocationTargets ==
    <<LocalFunc(0), LocalFunc(1), LibCall("CeilF32"), LibCall("Probestack"),
      CustomSection(0), JumpTable(0)>>

SeqsUpTo(S, n) == UNION {[1..k -> S] : k \in 0..n}

\* The compilation whose relocation lists name these targets.
Compilation(of_first, of_second, of_section) ==
    [WasmCalls EXCEPT
        !.relocations =
            <<[k \in DOMAIN of_first |-> Reloc(k, RelocationTargets[of_first[k]], 0)],
              [k \in DOMAIN of_second |->
                    Reloc(1, RelocationTargets[of_second[k]], 4)]>>,
        !.custom_section_relocations =
            <<[k \in DOMAIN of_section |->
                    Reloc(0, RelocationTargets[of_section[k]], 0)]>>]

\* Lines 182-310: the object before the loop, and all_relocations.
BeforeRelocations(target_triple, md, data) ==
    AddDynTrampolines(
        AddCallTrampolines(
            AddFunctions(
                AddSections(
                    AddMetadata(NewObject(target_triple.format, target_triple.arch,
                                          "Little"),
                                BincodeSerialize(md)),
                    md, data.custom_sections, 1),
                md, data.function_bodies, 1),
            md, data.function_call_trampolines, 1),
        md, data.dynamic_function_trampolines, 1)

Emitting(md, obj, data) ==
    [pc |-> "emitting", metadata |-> md, before |-> obj, obj |-> obj,
     all_relocations |->
        AllRelocations(obj, md, data.relocations, data.custom_section_relocations),
     next |-> 1]

InitEmission ==
    /\ host = Linux64
    /\ engine = NewEngine(host, TRUE)
    /\ files = <<>>
    /\ artifacts = <<>>
    /\ provenance = <<>>
    /\ result = Result("init", Ok, 0, FALSE)
    /\ arcs = <<>>
    /\ length_field = Idle
    /\ \E of_first \in SeqsUpTo(DOMAIN RelocationTargets, MaxRelocations),
          of_second \in SeqsUpTo({3}, 1), of_section \in SeqsUpTo({1, 4}, 1) :
            emission = Emitting(
                BuildMetadata(DefaultFeatures,
                              Compilation(of_first, of_second, of_section)),
                BeforeRelocations(Linux64,
                    BuildMetadata(DefaultFeatures,
                                  Compilation(of_first, of_second, of_section)),
                    Compilation(of_first, of_second, of_section)),
                Compilation(of_first, of_second, of_section))

\* One turn of `for r in relocations` (lines 314-390).
EmitNext ==
    /\ emission.pc = "emitting"
    /\ emission.next <= Len(emission.all_relocations)
    /\ emission' =
            [emission EXCEPT
                !.obj = EmitRelocation(@, emission.metadata,
                            emission.all_relocations[emission.next].symbol_id,
                            emission.all_relocations[emission.next].r),
                !.next = @ + 1]
    /\ UNCHANGED <<host, engine, files, artifacts, provenance, result, arcs,
                   length_field>>

\* The loop is left; the object goes to the temp file (line 393).
EmitDone ==
    /\ emission.pc = "emitting"
    /\ emission.next > Len(emission.all_relocations)
    /\ emission' = [emission EXCEPT !.pc = "emitted"]
    /\ UNCHANGED <<host, engine, files, artifacts, provenance, result, arcs,
                   length_field>>

NextEmission == EmitNext \/ EmitDone

SpecEmission == InitEmission /\ [][NextEmission]_vars

(***************************************************************************)
(* Properties.                                                             *)
(***************************************************************************)
\* The hosts whose build of is_deserializable compares against a header.
RecognisedHost(h) ==
    \/ PointerWidth(h) = 64 /\ h.os \in {"macos", "linux", "windows"}
    \/ PointerWidth(h) = 32 /\ h.os = "linux"

\* The artifacts `new` returned for the host's own triple.
NativeNew == {i \in DOMAIN artifacts : provenance[i].op = "new" /\ ~provenance[i].cross}

\* A table's addresses relative to the base its library is mapped at.
Offsets(artifact, table) ==
    [k \in DOMAIN table |->
        [offset |-> table[k].addr - artifact.library.path * AddrStride,
         len |-> table[k].len]]

\* `out` is a successful load whose artifact carries the metadata of `a` and
\* resolved the same symbols.
SameArtifact(a, out) ==
    /\ out.res.status = "Ok"
    /\ out.artifact.metadata = a.metadata
    /\ out.artifact.metadata.prefix = a.metadata.prefix
    /\ out.artifact.metadata.function_body_lengths = a.metadata.function_body_lengths
    /\ Offsets(out.artifact, out.artifact.finished_functions)
        = Offsets(a, a.finished_functions)
    /\ Offsets(out.artifact, out.artifact.finished_dynamic_function_trampolines)
        = Offsets(a, a.finished_dynamic_function_trampolines)

\* deserialize(serialize(a)) gives back `a`.
RoundTrips(a, serialized) ==
    /\ serialized.res.status = "Ok"
    /\ SameArtifact(a, DeserializeOutcome(host, engine, serialized.bytes, "ok",
                                          Len(files) + 1))

\* C1 as stated: for every module compiled for the host, on whatever host,
\* deserialize(serialize(compile(M))) succeeds and recovers the metadata
\* embedded at compile time (prefix, function_body_lengths, compile_info,
\* data_initializers) and the same symbols.
C1_Original ==
    \A i \in NativeNew : RoundTrips(artifacts[i], serialize(artifacts[i], files))

\* C1 (amended): on a host whose is_deserializable recognises a header
\* (64-bit macOS, Linux, Windows; 32-bit Linux), for every module compiled for
\* the host, deserialize(serialize(compile(M))) succeeds and recovers the
\* metadata embedded at compile time and the same symbols; every artifact
\* deserialized from such bytes carries that metadata.
C1_RoundTrip ==
    RecognisedHost(host) =>
        \A i \in NativeNew :
            /\ RoundTrips(artifacts[i], serialize(artifacts[i], files))
            /\ \A j \in DOMAIN artifacts :
                    (/\ provenance[j].op = "deserialize"
                     /\ files[artifacts[j].sharedobject_path]
                            = files[artifacts[i].sharedobject_path])
                    => artifacts[j].metadata = artifacts[i].metadata

\* A module with local functions was compiled for the host, serialized and
\* deserialized again.
C1_Witness ==
    /\ result.op = "deserialize" /\ result.status = "Ok"
    /\ \E i \in NativeNew :
            /\ artifacts[i].metadata.function_body_lengths # <<>>
            /\ files[artifacts[result.artifact].sharedobject_path]
                    = files[artifacts[i].sharedobject_path]
            /\ artifacts[result.artifact].sharedobject_path
                    # artifacts[i].sharedobject_path

\* C2: preinstantiate fails with Link(Trap("Cross compiled artifacts can't be
\* instantiated.")) exactly when the artifact's library is absent, succeeds
\* otherwise, and changes nothing of the artifacts, the engine or the files,
\* wherever it falls among the other calls.
C2_Preinstantiate ==
    [][result'.op = "preinstantiate" =>
        /\ UNCHANGED <<host, engine, files, artifacts, provenance>>
        /\ result'.artifact \in DOMAIN artifacts
        /\ IF artifacts[result'.artifact].library.open
           THEN result'.status = "Ok"
           ELSE /\ result'.status = "Err"
                /\ result'.err = "InstantiationError::Link"
                /\ result'.msg = "Cross compiled artifacts can't be instantiated."]_vars

\* preinstantiate failed on an artifact without library.
C2_Witness ==
    /\ result.op = "preinstantiate" /\ result.status = "Err"
    /\ ~artifacts[result.artifact].library.open

\* C3: an artifact has no library iff it comes from a compile whose target
\* differs from the host; such an artifact has empty finished_functions,
\* finished_dynamic_function_trampolines and signatures, and the compile that
\* returns it opens no library and leaves the engine's trampolines and
\* signature registry as they were.
C3_CrossCompiled ==
    /\ [](\A i \in DOMAIN artifacts :
            /\ ~artifacts[i].library.open <=> provenance[i].cross
            /\ provenance[i].cross =>
                    /\ provenance[i].op = "new"
                    /\ artifacts[i].finished_functions = <<>>
                    /\ artifacts[i].finished_dynamic_function_trampolines = <<>>
                    /\ artifacts[i].signatures = <<>>)
    /\ [][(result'.op = "new" /\ engine.target # host) =>
            /\ ~result'.opened
            /\ engine' = engine]_vars

\* A cross-compile returned an artifact for a module with signatures and
\* local functions.
C3_Witness ==
    /\ result.op = "new" /\ result.status = "Ok"
    /\ provenance[result.artifact].cross
    /\ ~artifacts[result.artifact].library.open
    /\ artifacts[result.artifact].metadata.function_body_lengths # <<>>
    /\ files[artifacts[result.artifact].sharedobject_path].image.kind = "dylib"

\* What deserialize does with `bytes`: Incompatible with nothing created,
\* opened or changed when the header is not the host's; else, when the temp
\* file can be created, the bytes land in it and the loader's outcome is
\* returned whatever follows the header.
GatedByMagic(bytes, out) ==
    IF ~is_deserializable(host, bytes.head)
    THEN /\ out.res = Incompatible
         /\ out.created = <<>>
         /\ ~out.opened
         /\ out.engine = engine
         /\ out.res.status = "Err"
    ELSE /\ out.created = <<bytes>>
         /\ out.res.err # Incompatible.err
         /\ out.opened = CanLoad(host, bytes)

\* C4: deserialize of bytes that do not start with the host's magic header
\* fails with DeserializeError::Incompatible before a temp file is written, a
\* library opened or the engine changed; with the header, the bytes are
\* written to a kept temp file and the loader runs without a second check.
C4_Deserialize ==
    /\ [](\A bytes \in DeserializeInputs :
            GatedByMagic(bytes,
                DeserializeOutcome(host, engine, bytes, "ok", Len(files) + 1)))
    /\ [][result'.op = "deserialize" =>
            IF result'.err = "DeserializeError::Incompatible"
            THEN /\ UNCHANGED <<engine, files, artifacts, provenance>>
                 /\ ~result'.opened
            ELSE result'.err # "DeserializeError::Io" =>
                 /\ Len(files') = Len(files) + 1
                 /\ is_deserializable(host, files'[Len(files')].head)]_vars

\* deserialize refused bytes without the host's header in a process whose
\* engine already holds trampolines and signatures.
C4_Witness ==
    /\ result.op = "deserialize"
    /\ result.err = "DeserializeError::Incompatible"
    /\ engine.signatures # <<>>
    /\ files # <<>>

\* C5 as stated: deserialize_from_file decides on the first 5 bytes of the
\* file, whatever its length: Incompatible for a file that does not start
\* with the host's magic header, the unchecked path for one that does, and
\* the gate refuses exactly the files whose content deserialize refuses.
C5_FromFileGate ==
    \A path \in DOMAIN files :
        /\ IF is_deserializable(host, files[path].head)
           THEN DeserializeFromFileOutcome(host, engine, path, files)
                    = UncheckedOutcome(host, engine, path, files[path], <<>>)
           ELSE DeserializeFromFileOutcome(host, engine, path, files).res
                    = Incompatible
        /\ DeserializeFromFileOutcome(host, engine, path, files).res = Incompatible
            <=> DeserializeOutcome(host, engine, files[path], "ok",
                                   Len(files) + 1).res = Incompatible

\* C6 as stated: the bytes serialize returns for any artifact of a
\* successful new (native or cross-compiled target) or deserialize pass
\* is_deserializable on the host.
C6_Original ==
    \A i \in DOMAIN artifacts :
        /\ serialize(artifacts[i], files).res.status = "Ok"
        /\ is_deserializable(host, serialize(artifacts[i], files).bytes.head)

\* C6 (amended): the bytes serialize returns pass is_deserializable for every
\* artifact returned by deserialize or deserialize_from_file, and for every
\* artifact returned by new on a host whose is_deserializable recognises a
\* header when the target has the host's binary format and pointer width.
C6_IsDeserializable ==
    \A i \in DOMAIN artifacts :
        /\ serialize(artifacts[i], files).res.status = "Ok"
        /\ (\/ provenance[i].op \in {"deserialize", "deserialize_from_file"}
            \/ /\ provenance[i].op = "new"
               /\ RecognisedHost(host)
               /\ engine.target.format = host.format
               /\ PointerWidth(engine.target) = PointerWidth(host))
           => is_deserializable(host, serialize(artifacts[i], files).bytes.head)

\* serialize was called on an artifact compiled on a recognised host, for the
\* host or for another target of its format.
C6_Witness ==
    /\ result.op = "serialize" /\ result.status = "Ok"
    /\ provenance[result.artifact].op = "new"
    /\ RecognisedHost(host)
    /\ engine.target.format = host.format

\* The artifacts that went through from_parts.
Hydrated_artifacts == {i \in DOMAIN artifacts : artifacts[i].library.open}

\* The image of the library an artifact was loaded from.
ImageOf(artifact) == files[artifact.library.path].image

\* C7: after a successful hydration finished_functions has one entry per
\* index of metadata.function_body_lengths, in index order; entry i is the
\* address of the symbol get_function_name gives for i with the length
\* function_body_lengths[i], which is the number of bytes of machine code
\* emitted for function i.
C7_FinishedFunctions ==
    \A a \in Hydrated_artifacts :
        /\ DOMAIN artifacts[a].finished_functions
            = DOMAIN artifacts[a].metadata.function_body_lengths
        /\ \A i \in DOMAIN artifacts[a].finished_functions :
            /\ artifacts[a].finished_functions[i].addr # 0
            /\ artifacts[a].finished_functions[i].addr
                = LibGet(artifacts[a].library.path, ImageOf(artifacts[a]),
                         get_function_name(artifacts[a].metadata, i - 1))
            /\ artifacts[a].finished_functions[i].len
                = artifacts[a].metadata.function_body_lengths[i]
            /\ artifacts[a].finished_functions[i].len
                = Len(LibBytes(ImageOf(artifacts[a]),
                               get_function_name(artifacts[a].metadata, i - 1)))

\* An artifact with two local functions of different lengths was hydrated.
C7_Witness ==
    /\ result.status = "Ok" /\ result.opened
    /\ result.artifact \in Hydrated_artifacts
    /\ Len(artifacts[result.artifact].finished_functions) = 2
    /\ artifacts[result.artifact].finished_functions[1].len
        # artifacts[result.artifact].finished_functions[2].len

\* C8: after a successful hydration finished_dynamic_function_trampolines has
\* num_imported_funcs entries, one per imported function and none for local
\* ones; entry f is the non-null address of the symbol
\* get_dynamic_function_trampoline_name gives for f, with length zero.
C8_DynamicTrampolines ==
    \A a \in Hydrated_artifacts :
        /\ Len(artifacts[a].finished_dynamic_function_trampolines)
            = artifacts[a].metadata.compile_info.module.num_imported_funcs
        /\ \A f \in DOMAIN artifacts[a].finished_dynamic_function_trampolines :
            /\ artifacts[a].finished_dynamic_function_trampolines[f].addr # 0
            /\ artifacts[a].finished_dynamic_function_trampolines[f].addr
                = LibGet(artifacts[a].library.path, ImageOf(artifacts[a]),
                         get_dynamic_function_trampoline_name(artifacts[a].metadata,
                                                              f - 1))
            /\ artifacts[a].finished_dynamic_function_trampolines[f].len = 0

\* A module with one import and no local function was hydrated: a table of
\* length 1 and no finished function.
C8_Witness ==
    /\ result.status = "Ok" /\ result.opened
    /\ result.artifact \in Hydrated_artifacts
    /\ Len(artifacts[result.artifact].finished_dynamic_function_trampolines) = 1
    /\ Len(artifacts[result.artifact].metadata.compile_info.module.functions) = 1
    /\ artifacts[result.artifact].finished_functions = <<>>

\* The signatures of the module an artifact was compiled from.
SignaturesOf(artifact) == artifact.metadata.compile_info.module.signatures

Prefixes == {<<97>>, <<97, 95, 49>>, <<98>>}

Modules == {[data EXCEPT !.prefix = p] : data \in {WasmImport, WasmCalls}, p \in Prefixes}

\* The object `new` writes for a module under the engine of the process.
Compiled(data) ==
    BuildObject(engine.target, BuildMetadata(engine.features, data), data)

SymbolNames(symbols) == {symbols[k].name : k \in DOMAIN symbols}

\* The names of the symbols an object defines, the metadata symbol aside.
PrefixedNames(symbols) ==
    {symbols[k].name : k \in {j \in DOMAIN symbols :
        symbols[j].section # "Undefined" /\ symbols[j].name # WASMER_METADATA}}

\* Whether a name is a stem, the prefix, "_" and an index in decimal.
NamedByIndex(name, prefix) ==
    \E stem \in {FunctionStem, TrampolineStem, DynTrampolineStem, SectionStem},
       index \in 0..9 :
        name = stem \o prefix \o Underscore \o Decimal(index)

\* The object file the last call wrote, if it was `new` compiling `data`.
WroteObject(data) ==
    /\ result.op = "new"
    /\ Len(files) >= 2
    /\ files[Len(files) - 1].image.kind = "object"
    /\ files[Len(files) - 1] = ObjectFile(engine.target, Compiled(data))

\* C10 as stated: no symbol name emitted into the object of one artifact
\* (metadata, function, call trampoline, dynamic trampoline, custom section
\* and libcall symbols) is emitted into the object of an artifact with a
\* different prefix.
C10_Original ==
    \A data \in {WasmImport, WasmCalls}, other \in Modules :
        (WroteObject(data) /\ other.prefix # data.prefix)
        => SymbolNames(files[Len(files) - 1].image.symbols)
                \cap SymbolNames(Compiled(other).symbols) = {}

\* The prefixed names of an object are named by index, none of them is a name
\* of the other object, and none of the other's is a name of this object.
DisjointPrefixed(prefix, symbols, other_prefix, other_symbols) ==
    /\ \A name \in PrefixedNames(symbols) : NamedByIndex(name, prefix)
    /\ WASMER_METADATA \in SymbolNames(symbols) \cap SymbolNames(other_symbols)
    /\ other_prefix # prefix =>
        /\ PrefixedNames(symbols) \cap SymbolNames(other_symbols) = {}
        /\ SymbolNames(symbols) \cap PrefixedNames(other_symbols) = {}

\* C10 (amended): the function, call trampoline, dynamic trampoline and
\* custom section symbols of an object are named by their stem, the prefix
\* and their index, and no such name is emitted into the object of an
\* artifact with a different prefix; the metadata symbol WASMER_METADATA is
\* in every object, and libcall symbols carry no prefix.
C10_SymbolNames ==
    \A data \in {WasmImport, WasmCalls}, other \in Modules :
        WroteObject(data)
        => DisjointPrefixed(data.prefix, files[Len(files) - 1].image.symbols,
                            other.prefix, Compiled(other).symbols)

\* `new` wrote the object of a module with functions, trampolines, a custom
\* section and libcalls, whose prefix starts another module's prefix.
C10_Witness ==
    /\ WroteObject(WasmCalls)
    /\ \E k \in DOMAIN files[Len(files) - 1].image.symbols :
            files[Len(files) - 1].image.symbols[k].section = "Undefined"
    /\ StartsWith(WasmImport.prefix, WasmCalls.prefix)

\* The bytes are an unsigned LEB128 number followed by zeros only.
ZeroPaddedLeb128(field) ==
    \E w \in DOMAIN field :
        /\ \A i \in 1..(w - 1) : field[i] >= 128
        /\ field[w] < 128
        /\ \A i \in (w + 1)..Len(field) : field[i] = 0

\* C11: whatever u64 the length is, the metadata symbol holds a prefix of
\* exactly 10 bytes, the length in LEB128 padded with zeros, and then the
\* serialized metadata from offset 10 on; the loader's LEB128 read of the
\* symbol returns exactly that length.
C11_LengthPrefix ==
    /\ length_field.pc \in {"written", "read"} =>
        /\ Len(length_field.metadata_length)
                = 10 + Len(length_field.serialized_data)
        /\ ZeroPaddedLeb128(SubSeq(length_field.metadata_length, 1, 10))
        /\ SubSeq(length_field.metadata_length, 10 + 1,
                  Len(length_field.metadata_length))
                = length_field.serialized_data
    /\ length_field.pc = "read" =>
        /\ length_field.metadata_len.ok
        /\ length_field.metadata_len.val = length_field.len

\* The largest length, which fills all ten bytes, has been written and read
\* back whole.
C11_Witness ==
    /\ length_field.pc = "read"
    /\ length_field.len = Ones(64)
    /\ length_field.metadata_length[10] = 1
    /\ length_field.metadata_len.ok
    /\ length_field.metadata_len.val = <<65535, 65535, 65535, 65535>>

\* The file is a library of the host whose metadata symbol starts with
\* 0xFF x 10.
LengthOverwritten(file) ==
    /\ HasMetadataSymbol(file)
    /\ file.image.target = host
    /\ SubSeq(LibBytes(file.image, WASMER_METADATA), 1, 10) = [i \in 1..10 |-> 255]

\* The step is a deserialize that wrote its bytes to the temp file: the file
\* it appended holds the bytes it was given.
DeserializedBytes ==
    /\ result'.op = "deserialize"
    /\ Len(files') = Len(files) + 1
    /\ is_deserializable(host, files'[Len(files')].head)

\* C12 as stated: deserialize of a library whose length bytes are 0xFF x 10
\* fails with CorruptedBinary raised by the decoding of the metadata, returns
\* no artifact and leaves the engine as it was.
C12_Original ==
    [][DeserializedBytes /\ LengthOverwritten(files'[Len(files')]) =>
        /\ result'.status = "Err"
        /\ result'.err = "DeserializeError::CorruptedBinary"
        /\ result'.msg = "bincode"
        /\ result'.artifact = 0
        /\ artifacts' = artifacts
        /\ engine' = engine]_vars

\* C12: on a host that recognises the library's header, deserialize of a
\* library whose length bytes are 0xFF x 10 fails with CorruptedBinary
\* ("Can't read metadata size") at the LEB128 read of the length field,
\* before the metadata is decoded; it returns no artifact and leaves the
\* engine's trampolines and signatures as they were.
C12_OverwrittenLength ==
    [][DeserializedBytes /\ LengthOverwritten(files'[Len(files')]) =>
        /\ result'.status = "Err"
        /\ result'.err = "DeserializeError::CorruptedBinary"
        /\ result'.msg = "Can't read metadata size"
        /\ result'.artifact = 0
        /\ result'.opened
        /\ artifacts' = artifacts
        /\ engine' = engine]_vars

\* A library that had loaded into an artifact was overwritten and then
\* handed to deserialize, which opened it and gave up on the length.
C12_Witness ==
    /\ result.op = "deserialize"
    /\ result.err = "DeserializeError::CorruptedBinary"
    /\ result.msg = "Can't read metadata size"
    /\ artifacts # <<>>
    /\ engine.trampolines # <<>>
    /\ LengthOverwritten(files[Len(files)])
    /\ \E path \in 1..(Len(files) - 1) : files[path] = files[Len(files)]

\* The call failed because the linker exited with a non-zero status.
LinkerExitedNonZero(res) ==
    /\ res.status = "Err"
    /\ res.msg = "Shared object file generator failed with:\nstderr:{}\nstdout:{}"

\* `text` is what the linker wrote on a pipe, decoded, with its trailing
\* white space cut off and nothing else changed.
TrimmedFrom(text, written) ==
    /\ Len(text) <= Len(written)
    /\ text = SubSeq(from_utf8_lossy(written), 1, Len(text))
    /\ \A i \in (Len(text) + 1)..Len(written) : written[i] \in WhiteSpace
    /\ text # <<>> => text[Len(text)] \notin WhiteSpace

\* C13: `new` goes through translate, plan, compile, emit object, link and
\* load in that order: files are written only once translation and
\* compilation have passed, a library is opened only when the linker has
\* written it next to the object, and the engine is touched only after the
\* library is opened.  When the linker exits non-zero, new returns
\* CompileError::Codegen carrying the trimmed stderr and stdout, opens no
\* library, returns no artifact and leaves the engine's trampolines and
\* signatures unchanged.
C13_LinkBeforeLoad ==
    [][result'.op = "new" =>
        /\ files' # files =>
            /\ engine.compiler
            /\ Len(files') = Len(files) + 2
            /\ files'[Len(files) + 1].image.kind = "object"
        /\ result'.opened =>
            /\ Len(files') = Len(files) + 2
            /\ files'[Len(files')].image.kind = "dylib"
            /\ files'[Len(files')].image.symbols # <<>>
        /\ engine' # engine => result'.opened
        /\ result'.status = "Ok" =>
            /\ files'[Len(files')].image.kind = "dylib"
            /\ artifacts'[result'.artifact].sharedobject_path = Len(files')
        /\ LinkerExitedNonZero(result') =>
            /\ result'.err = "CompileError::Codegen"
            /\ \E output \in FailedOutputs :
                    /\ TrimmedFrom(result'.args[1], output.stderr)
                    /\ TrimmedFrom(result'.args[2], output.stdout)
            /\ ~result'.opened
            /\ result'.artifact = 0
            /\ artifacts' = artifacts
            /\ files'[Len(files')] = EmptyFile
            /\ engine' = engine]_vars

\* The linker failed on a module that had been written to its object file,
\* and what it wrote on its pipes ended in white space.
C13_Witness ==
    /\ result.op = "new"
    /\ LinkerExitedNonZero(result)
    /\ result.args = <<<<32, 108, 100, 65533>>, <<103, 99, 99>>>>
    /\ ~result.opened
    /\ artifacts = <<>>
    /\ engine.compiler
    /\ Len(files) = 2
    /\ files[1].image.kind = "object"
    /\ files[2] = EmptyFile

\* C14: in any sequence of module(), clones, downgrades, upgrades and drops
\* of what the callers hold, module_mut returns Some exactly when no handle
\* returned by module(), and no other referent of the module, is alive, and
\* None otherwise; it changes no count.
C14_ModuleMut ==
    [][result'.op = "module_mut" =>
        /\ result'.artifact \in DOMAIN artifacts
        /\ result'.status = "Some" <=> arcs[result'.artifact].referents = <<>>
        /\ result'.status = "None" <=> arcs[result'.artifact].referents # <<>>
        /\ arcs' = arcs]_vars

\* module_mut refused the module of an artifact of which a handle had been
\* taken, downgraded and dropped, so that only a Weak was left, while the
\* other artifact had no referent at all.
C14_Witness ==
    /\ result.op = "module_mut"
    /\ result.status = "None"
    /\ Len(artifacts) = 2
    /\ arcs[result.artifact].referents = <<"Weak">>
    /\ arcs[result.artifact].strong = 1
    /\ arcs[result.artifact].weak = 2
    /\ arcs[3 - result.artifact].referents = <<>>

\* The relocations the loop has been through, and those of them that are
\* not jump tables.
Visited == SubSeq(emission.all_relocations, 1, emission.next - 1)

VisitedEmitting ==
    SelectSeq(Visited, LAMBDA e : e.r.reloc_target.kind # "JumpTable")

\* The names of the libcalls met so far.
VisitedLibCalls ==
    {LibCallName(Visited[k].r.reloc_target.index) :
        k \in {j \in DOMAIN Visited : Visited[j].r.reloc_target.kind = "LibCall"}}

\* The symbols added since the loop began.
AddedSymbols ==
    SubSeq(emission.obj.symbols, Len(emission.before.symbols) + 1,
           Len(emission.obj.symbols))

\* The name the target of a relocation goes by.
TargetName(md, t) ==
    CASE t.kind = "LocalFunc" -> get_function_name(md, t.index)
      [] t.kind = "CustomSection" -> get_section_name(md, t.index)
      [] t.kind = "LibCall" -> LibCallName(t.index)

\* C15: at every point of the relocation loop the object holds, beyond the
\* symbols it had when the loop began, exactly one undefined symbol (kind and
\* scope Unknown, section Undefined) for each distinct libcall met so far and
\* none for any other libcall; every relocation to a local function or a
\* custom section points at a symbol that was there before the loop began,
\* every libcall relocation at the libcall's symbol; a jump table target
\* adds neither a symbol nor a relocation.
C15_LazyLibCalls ==
    emission.pc \in {"emitting", "emitted"} =>
        /\ SubSeq(emission.obj.symbols, 1, Len(emission.before.symbols))
                = emission.before.symbols
        /\ \A k \in DOMAIN AddedSymbols :
                /\ AddedSymbols[k].kind = "Unknown"
                /\ AddedSymbols[k].scope = "Unknown"
                /\ AddedSymbols[k].section = "Undefined"
        /\ {AddedSymbols[k].name : k \in DOMAIN AddedSymbols} = VisitedLibCalls
        /\ Len(AddedSymbols) = Cardinality(VisitedLibCalls)
        /\ Len(emission.obj.relocations) = Len(VisitedEmitting)
        /\ \A k \in DOMAIN VisitedEmitting :
                LET t == VisitedEmitting[k].r.reloc_target
                    symbol == emission.obj.relocations[k].symbol
                IN /\ symbol \in DOMAIN emission.obj.symbols
                   /\ emission.obj.symbols[symbol].name
                        = TargetName(emission.metadata, t)
                   /\ t.kind \in {"LocalFunc", "CustomSection"}
                        <=> symbol <= Len(emission.before.symbols)

\* The loop has ended after meeting one libcall twice, with a jump table
\* between, and another libcall in the section's list: two
\* symbols were added for the three libcall relocations.
C15_Witness ==
    /\ emission.pc = "emitted"
    /\ Len(emission.all_relocations) = 4
    /\ [k \in 1..4 |-> emission.all_relocations[k].r.reloc_target.kind]
            = <<"LibCall", "JumpTable", "LibCall", "LibCall">>
    /\ emission.all_relocations[1].r.reloc_target.index = "CeilF32"
    /\ emission.all_relocations[3].r.reloc_target.index = "CeilF32"
    /\ emission.all_relocations[4].r.reloc_target.index = "Probestack"
    /\ Len(AddedSymbols) = 2
    /\ Len(emission.obj.relocations) = 3

\* The names hydration looks up for a module: its function bodies, the call
\* trampolines of its signatures, the dynamic trampolines of its imports.
LookedUp(md) ==
    {get_function_name(md, i - 1) : i \in DOMAIN md.function_body_lengths}
        \cup {get_function_call_trampoline_name(md, i - 1) :
                i \in DOMAIN md.compile_info.module.signatures}
        \cup {get_dynamic_function_trampoline_name(md, f - 1) :
                f \in {g \in DOMAIN md.compile_info.module.functions :
                            g <= md.compile_info.module.num_imported_funcs}}

\* The library lacks a symbol that hydration of its own metadata looks up.
MissingSymbol(file) ==
    \E name \in LookedUp(ReadMetadata(host, file.image).val) :
        name \notin SymbolNames(file.image.symbols)

\* The file is a library the host loads and whose metadata decodes.
Hydratable(file) ==
    /\ CanLoad(host, file)
    /\ HasMetadataSymbol(file)
    /\ ReadMetadata(host, file.image).ok

\* The step returned no artifact and registered no signature.
NothingRegistered ==
    /\ result'.status = "Err"
    /\ result'.artifact = 0
    /\ artifacts' = artifacts
    /\ engine'.signatures = engine.signatures

\* C16: a library that lacks a function body, a call trampoline or a dynamic
\* trampoline its metadata names makes hydration fail: `new` returns the
\* CompileError::Codegen of from_parts as it is, every deserialize path
\* returns it wrapped as DeserializeError::Compiler, and no artifact is
\* returned; with every symbol present hydration succeeds.  A library that
\* cannot be opened is CompileError::Codegen from `new` and
\* DeserializeError::CorruptedBinary ("Library loading failed") from
\* deserialize.  A hydration that fails leaves the signature registry as it
\* was.
C16_MissingSymbol ==
    [][/\ result'.op = "new" /\ result'.opened =>
            IF MissingSymbol(files'[Len(files')])
            THEN /\ result'.err = "CompileError::Codegen"
                 /\ result'.msg = "symbol not found"
                 /\ NothingRegistered
            ELSE result'.status = "Ok"
       /\ DeserializedBytes /\ Hydratable(files'[Len(files')]) =>
            IF MissingSymbol(files'[Len(files')])
            THEN /\ result'.err = "DeserializeError::Compiler"
                 /\ result'.msg = "symbol not found"
                 /\ result'.opened
                 /\ NothingRegistered
            ELSE result'.status = "Ok"
       /\ /\ result'.op \in {"deserialize", "deserialize_from_file",
                              "deserialize_from_file_unchecked"}
          /\ result'.status = "Err"
          /\ result'.opened
          /\ result'.err # "DeserializeError::CorruptedBinary"
          => /\ result'.err = "DeserializeError::Compiler"
             /\ NothingRegistered
             /\ \E path \in DOMAIN files' :
                    Hydratable(files'[path]) /\ MissingSymbol(files'[path])
       /\ result'.op = "new" /\ result'.msg = "Library::new" =>
            /\ result'.err = "CompileError::Codegen"
            /\ ~result'.opened
            /\ NothingRegistered
       /\ DeserializedBytes /\ ~CanLoad(host, files'[Len(files')]) =>
            /\ result'.err = "DeserializeError::CorruptedBinary"
            /\ result'.msg = "Library loading failed"
            /\ ~result'.opened
            /\ NothingRegistered]_vars

\* deserialize was given a library stripped of its dynamic trampolines after
\* an artifact had been built from it: the call trampolines were found, the
\* lookup of the dynamic trampoline failed, and the registry holds what the
\* first artifact registered.
C16_Witness ==
    /\ result.op = "deserialize"
    /\ result.err = "DeserializeError::Compiler"
    /\ result.msg = "symbol not found"
    /\ Len(artifacts) = 1
    /\ engine.signatures # <<>>
    /\ \E k \in DOMAIN files[Len(files)].image.symbols :
            StartsWith(files[Len(files)].image.symbols[k].name, TrampolineStem)
    /\ \A k \in DOMAIN files[Len(files)].image.symbols :
            ~StartsWith(files[Len(files)].image.symbols[k].name, DynTrampolineStem)

\* A successful load whose artifact serializes to these bytes, read from
\* this path.
SerializesTo(out, fs, path, bytes) ==
    out.res = Ok =>
        /\ out.artifact.sharedobject_path = path
        /\ serialize(out.artifact, fs \o out.created) = [res |-> Ok, bytes |-> bytes]

\* C17: for every b on which deserialize succeeds, the artifact's path is the
\* kept temp file and serialize returns exactly b; for every path p on which
\* deserialize_from_file succeeds, the artifact's path is p and serialize
\* returns the content of p.  serialize, preinstantiate and the accessors
\* change neither the artifacts nor the files, and no call of the program
\* changes what serialize returns for an artifact that exists.
C17_SerializeReturnsBytes ==
    /\ [](/\ \A b \in DeserializeInputs :
                SerializesTo(DeserializeOutcome(host, engine, b, "ok", Len(files) + 1),
                             files, Len(files) + 1, b)
          /\ \A p \in DOMAIN files :
                SerializesTo(DeserializeFromFileOutcome(host, engine, p, files),
                             files, p, files[p]))
    /\ [][/\ result'.op \in {"serialize", "preinstantiate", "accessor"} =>
                UNCHANGED <<artifacts, files, engine>>
          /\ \A a \in DOMAIN artifacts :
                /\ artifacts'[a] = artifacts[a]
                /\ serialize(artifacts'[a], files') = serialize(artifacts[a], files)
                /\ serialize(artifacts[a], files).res = Ok]_vars

\* An artifact that deserialize returned for the bytes of a linked library
\* has been serialized: its path is the temp file, which holds the bytes of
\* the library it was copied from.
C17_Witness ==
    /\ result.op = "serialize"
    /\ result.status = "Ok"
    /\ provenance[result.artifact].op = "deserialize"
    /\ artifacts[result.artifact].sharedobject_path = Len(files)
    /\ Len(files) = 3
    /\ files[3] = files[2]
    /\ serialize(artifacts[result.artifact], files).bytes = files[2]

=============================================================================
